---- MODULE Spec2Model ----
(***************************************************************************)
(* A model of the console stream of ScreepsAPI (src/src/screeps-api.ts)    *)
(* and of the tool that starts it (src/src/tools.ts).                      *)
(*                                                                         *)
(* One ScreepsAPI instance is modelled.  Every startConsoleStream call is  *)
(* a process c with a position calls[c].pc; the WebSocket it creates is    *)
(* sockets[c].  The ws library and the remote server are the environment:  *)
(* they open sockets, deliver frames, and emit 'error' and 'close'.        *)
(* JavaScript objects that can be shared by reference (the buffered        *)
(* messages, the buffer array) are modelled with identities, so that a     *)
(* copy and an alias are different things.                                 *)
(***************************************************************************)
EXTENDS Integers, Sequences, FiniteSets, TLC

\* ------------------------------------------------------------------ bounds
MaxStarts == 2      \* startConsoleStream calls in one behaviour
MaxFrames == 1      \* console payload frames the server delivers (Spec)
MaxBufFrames == 2   \* console payload frames the server delivers (SpecBuffer, SpecRead)
MaxClock == 2       \* Date.now() ranges over 1..MaxClock
MaxAllFrames == 6   \* frames of any kind the server delivers (SpecFrames)
MaxAsks == 4        \* allowRequest calls on one key (SpecLimiter)
MaxTime == 5        \* the clock of SpecLimiter ranges over 1..MaxTime
LimiterWindow == 2  \* windowMs of the limiter of SpecLimiter
LimiterMax == 2     \* maxRequests of the limiter of SpecLimiter
MaxToolCalls == 2   \* handleToolCall calls in one behaviour (SpecTools)
MaxAuthDepth == 1   \* authenticate() calls nested in apiRequest (SpecTools)
BurstCalls == 99    \* calls made before the behaviour begins (ToolsBusy)
MaxTasks == 2       \* one-shot calls of the Connection Client (SpecRequests)
MaxPieces == 3      \* pieces an input string is made of (SpecSanitize, SpecStrip)
MaxPollFrames == 3  \* console payload frames the server delivers (SpecPoll)

\* --------------------------------------------------------- program constants
MinBufferSize == 10         \* Math.max(bufferSize, 10)
MaxBufferSize == 5000       \* Math.min(..., 5000)
DefaultMaxConsoleBuffer == 500   \* private maxConsoleBuffer = 500
SchemaDefaultBufferSize == 500   \* ConsoleStreamStartArgsSchema default
SchemaMinBufferSize == 10
SchemaMaxBufferSize == 5000
MaxCommandLength == 10000   \* ConsoleCommandArgsSchema: command max
MaxHistoryLimit == 200      \* ConsoleHistoryArgsSchema: limit max
MaxReadLimit == 500         \* ConsoleStreamReadArgsSchema: limit max
MaxPathLength == 500        \* MemoryPathArgsSchema: path max
MaxValueLength == 100000    \* MemorySetArgsSchema: value max
MaxSegment == 99            \* MemorySegmentArgsSchema: segment max
ToolWindowMs == 60000       \* new RateLimiter(60000, 100)
ToolMaxRequests == 100

VARIABLES
    config,          \* the ConnectionConfig: [shard, cred]
    token,           \* this.token ("" when undefined)
    userId,          \* this.userId ("" when undefined)
    consoleSocket,   \* this.consoleSocket: a socket id, 0 when undefined
    consoleBuffer,   \* this.consoleBuffer: the ids of the buffered message objects
    consoleShard,    \* this.consoleShard ("" when undefined)
    maxConsoleBuffer,\* this.maxConsoleBuffer
    heap,            \* the ConsoleMessage objects created by pushMessage, by id
    sockets,         \* the WebSocket created by each start call
    calls,           \* each startConsoleStream call: its position and shard argument
    clock,           \* Date.now()
    returned,        \* the collection a caller got from getBufferedConsoleMessages
    \* history variables, read by the properties only
    admitted,        \* every message pushMessage admitted, in order, as admitted
    boundFixed,      \* maxConsoleBuffer has not changed since the first admission
    nFrames,         \* console payload frames delivered
    stopDuring,      \* stopConsoleStream was called while call c was pending
    stopped,         \* stopConsoleStream was called and no start since
    raised,          \* an exception escaped (an 'error' event without a listener)
    snap,            \* what the caller holds in `returned`, as the caller left it
    discarded,       \* the frames the message handler discarded, and when
    \* the tool layer (ScreepsTools) and its rate limiter
    requests,        \* RateLimiter.requests: a map from identifier to admission times
    apiReady,        \* the apiReady promise: "pending", "resolved" or "rejected"
    authCall,        \* the authenticate() call of the constructor: its position
    toolCall,        \* the handleToolCall in flight: its position, tool and arguments
    result,          \* what the last handleToolCall returned
    \* history variables of the tool layer
    asked,           \* every allowRequest call, by identifier: its time and answer
    clientOps,       \* operations of the Connection Client the tool calls invoked
    validated,       \* arguments the tool calls validated
    flow,            \* each dispatched tool call: arguments, validation, what was
                     \* sanitized and what reached the Connection Client
    \* one-shot requests of the Connection Client (ScreepsAPI)
    tasks,           \* each one-shot call in flight: its position
    http,            \* history: the HTTP requests sent, with the token attached
    \* a pure function applied to an input
    probe,           \* the function, its argument and its value
    \* history variables of the handshake and of a polling reader
    answered,        \* what the server answered to the auth frame of each socket
    before,          \* the stream state each startConsoleStream call found
    reader           \* a polling reader: its since, what it got, what was admitted

vars == <<config, token, userId, consoleSocket, consoleBuffer, consoleShard,
          maxConsoleBuffer, heap, sockets, calls, clock, returned,
          admitted, boundFixed, nFrames, stopDuring, stopped, raised, snap,
          discarded,
          requests, apiReady, authCall, toolCall, result, asked, clientOps, validated,
          flow, tasks, http, probe, answered, before, reader>>

\* the variables of the tool layer, and what the stream owns alone
moreVars == <<tasks, http, probe, answered, before, reader>>
toolVars == <<requests, apiReady, authCall, toolCall, result, asked, clientOps, validated,
              flow, moreVars>>
quietVars == <<config, consoleSocket, consoleBuffer, consoleShard, maxConsoleBuffer,
               heap, sockets, calls, returned, admitted, boundFixed, nFrames,
               stopDuring, stopped, snap, discarded>>
streamVars == <<quietVars, raised>>

Calls == 1..MaxStarts

\* ------------------------------------------------------------------ values
NoArg == [has |-> FALSE, val |-> 0]
Some(v) == [has |-> TRUE, val |-> v]

Min(a, b) == IF a < b THEN a ELSE b
Max(a, b) == IF a > b THEN a ELSE b

\* Array.prototype.slice(-n) for n > 0: the last n elements (all when n >= length)
SliceLast(s, n) == SubSeq(s, Max(1, Len(s) - n + 1), Len(s))

\* strings are sequences of characters
S_hi == <<"h", "i">>
S_bhi == <<"<", "b", ">", "h", "i", "<", "/", "b", ">">>
S_lt == <<"a", "<", "b">>

RECURSIVE HasGt(_)
HasGt(s) == IF s = <<>> THEN FALSE ELSE Head(s) = ">" \/ HasGt(Tail(s))

RECURSIVE AfterGt(_)
AfterGt(s) == IF Head(s) = ">" THEN Tail(s) ELSE AfterGt(Tail(s))

\* html.replace(/<[^>]*>/, ''), without the flag g: the first tag only
stripHtmlTags_FirstOnly(s) ==
    IF \E i \in 1..Len(s) : s[i] = "<" /\ HasGt(SubSeq(s, i + 1, Len(s)))
    THEN LET i == CHOOSE i \in 1..Len(s) :
                    /\ s[i] = "<" /\ HasGt(SubSeq(s, i + 1, Len(s)))
                    /\ \A j \in 1..(i - 1) : ~(s[j] = "<" /\ HasGt(SubSeq(s, j + 1, Len(s))))
         IN SubSeq(s, 1, i - 1) \o AfterGt(SubSeq(s, i + 1, Len(s)))
    ELSE s

\* html.replace(/<[^>]*>/g, '')
RECURSIVE stripHtmlTags(_)
stripHtmlTags(s) ==
    IF s = <<>> THEN <<>>
    ELSE IF Head(s) = "<" /\ HasGt(Tail(s)) THEN stripHtmlTags(AfterGt(Tail(s)))
    ELSE <<Head(s)>> \o stripHtmlTags(Tail(s))

\* ------------------------------------------------ the patterns of InputSanitizer
\* Strings are sequences of characters.  The flag i of a pattern: letters
\* are compared in lower case.
LowerOf == [A |-> "a", B |-> "b", C |-> "c", D |-> "d", E |-> "e", F |-> "f", G |-> "g", H |-> "h", I |-> "i", J |-> "j", K |-> "k", L |-> "l", M |-> "m", N |-> "n", O |-> "o", P |-> "p", Q |-> "q", R |-> "r", S |-> "s", T |-> "t", U |-> "u", V |-> "v", W |-> "w", X |-> "x", Y |-> "y", Z |-> "z"]
Lower(c) == IF c \in DOMAIN LowerOf THEN LowerOf[c] ELSE c
Digits == {"0", "1", "2", "3", "4", "5", "6", "7", "8", "9"}
\* \w and \s
IsWord(c) == Lower(c) \in {LowerOf[u] : u \in DOMAIN LowerOf} \cup Digits \cup {"_"}
IsSpace(c) == c \in {" ", "\t", "\n", "\r"}

\* s begins with the text, letters compared in lower case
StartsWithCI(s, text) ==
    /\ Len(s) >= Len(text)
    /\ \A i \in 1..Len(text) : Lower(s[i]) = text[i]
\* the number of leading characters of s that are in the class
RECURSIVE Run(_, _)
Run(s, class) ==
    IF s # <<>> /\ ((class = "w" /\ IsWord(Head(s))) \/ (class = "s" /\ IsSpace(Head(s))))
    THEN 1 + Run(Tail(s), class) ELSE 0
Drop(s, n) == SubSeq(s, n + 1, Len(s))
\* the first position at or after i where the text begins in s, 0 when none
RECURSIVE FindCI(_, _, _)
FindCI(s, text, i) ==
    IF i + Len(text) - 1 > Len(s) THEN 0
    ELSE IF StartsWithCI(Drop(s, i - 1), text) THEN i
    ELSE FindCI(s, text, i + 1)

S_dotdot == <<".", ".">>
S_require == <<"r", "e", "q", "u", "i", "r", "e">>
S_process_ == <<"p", "r", "o", "c", "e", "s", "s", ".">>
S_global_ == <<"g", "l", "o", "b", "a", "l", ".">>
S_javascript_ == <<"j", "a", "v", "a", "s", "c", "r", "i", "p", "t", ":">>
S_on == <<"o", "n">>
S_script_open == <<"<", "s", "c", "r", "i", "p", "t">>
S_script_close == <<"<", "/", "s", "c", "r", "i", "p", "t", ">">>
PathSpecials == {"<", ">", ":", "\"", "|", "?", "*"}

\* The length of the match of a pattern at the start of s, 0 when it does not
\* match there:
\*   dots        /\.\./            specials  /[<>:"|?*]/
\*   require     /require\s*\(/i   process   /process\./i    global  /global\./i
\*   javascript  /javascript:/i    handler   /on\w+\s*=/i
\*   script      /<script\b[^<]*(?:(?!<\/script>)<[^<]*)*<\/script>/i
MatchLen(s, pattern) ==
    CASE pattern = "dots" -> IF StartsWithCI(s, S_dotdot) THEN 2 ELSE 0
      [] pattern = "specials" -> IF s # <<>> /\ Head(s) \in PathSpecials THEN 1 ELSE 0
      [] pattern = "require" ->
            IF StartsWithCI(s, S_require)
            THEN LET spaces == Run(Drop(s, Len(S_require)), "s")
                     after == Drop(s, Len(S_require) + spaces)
                 IN IF after # <<>> /\ Head(after) = "("
                    THEN Len(S_require) + spaces + 1 ELSE 0
            ELSE 0
      [] pattern = "process" -> IF StartsWithCI(s, S_process_) THEN Len(S_process_) ELSE 0
      [] pattern = "global" -> IF StartsWithCI(s, S_global_) THEN Len(S_global_) ELSE 0
      [] pattern = "javascript" ->
            IF StartsWithCI(s, S_javascript_) THEN Len(S_javascript_) ELSE 0
      [] pattern = "handler" ->
            IF StartsWithCI(s, S_on)
            THEN LET word == Run(Drop(s, Len(S_on)), "w")
                     spaces == Run(Drop(s, Len(S_on) + word), "s")
                     after == Drop(s, Len(S_on) + word + spaces)
                 IN IF word > 0 /\ after # <<>> /\ Head(after) = "="
                    THEN Len(S_on) + word + spaces + 1 ELSE 0
            ELSE 0
      [] pattern = "script" ->
            IF /\ StartsWithCI(s, S_script_open)
               /\ (Len(s) = Len(S_script_open) \/ ~IsWord(s[Len(S_script_open) + 1]))
            THEN LET close == FindCI(s, S_script_close, Len(S_script_open) + 1)
                 IN IF close > 0 THEN close + Len(S_script_close) - 1 ELSE 0
            ELSE 0

\* s.replace(/pattern/g, ''): the matches, found from left to right, removed
RECURSIVE RemoveAll(_, _)
RemoveAll(s, pattern) ==
    IF s = <<>> THEN <<>>
    ELSE IF MatchLen(s, pattern) > 0 THEN RemoveAll(Drop(s, MatchLen(s, pattern)), pattern)
    ELSE <<Head(s)>> \o RemoveAll(Tail(s), pattern)

\* s.trim()
RECURSIVE TrimEnd(_)
TrimEnd(s) == IF s # <<>> /\ IsSpace(s[Len(s)]) THEN TrimEnd(SubSeq(s, 1, Len(s) - 1)) ELSE s
Trim(s) == TrimEnd(Drop(s, Run(s, "s")))

\* InputSanitizer.sanitizeString(input)
sanitizeString(input) ==
    Trim(RemoveAll(RemoveAll(RemoveAll(input, "script"), "javascript"), "handler"))

\* InputSanitizer.sanitizeMemoryPath(path)
sanitizeMemoryPath(path) == Trim(RemoveAll(RemoveAll(path, "dots"), "specials"))

\* InputSanitizer.sanitizeConsoleCommand(command)
sanitizeConsoleCommand(command) ==
    Trim(RemoveAll(RemoveAll(RemoveAll(command, "require"), "process"), "global"))

\* the text occurs in s
Contains(s, text) ==
    \E i \in 1..(Len(s) - Len(text) + 1) : SubSeq(s, i, i + Len(text) - 1) = text

\* the strings made of up to n of the pieces
RECURSIVE Concats(_, _)
Concats(pieces, n) ==
    IF n = 0 THEN {<<>>}
    ELSE Concats(pieces, n - 1) \cup {a \o b : a \in Concats(pieces, n - 1), b \in pieces}

\* the inputs of the sanitizers and of stripHtmlTags
PathPieces == {<<".">>, <<".", ".">>, <<"<">>, <<":">>, <<"a">>, <<" ">>}
CommandPieces == {<<"r", "e">>,
                  <<"q", "u", "i", "r", "e", "(">>,
                  <<"r", "e", "q", "u", "i", "r", "e", " ", "(">>,
                  <<"p", "r", "o">>,
                  <<"c", "e", "s", "s", ".">>,
                  <<"p", "r", "o", "c", "e", "s", "s", ".">>,
                  <<"g", "l", "o", "b", "a", "l", ".">>,
                  <<"G", "L", "O", "B", "A", "L", ".">>,
                  <<" ", "x">>}
StripPieces == {<<"<">>, <<">">>, <<"a">>, <<"<", "b", ">">>}
PathInputs == Concats(PathPieces, MaxPieces)
CommandInputs == Concats(CommandPieces, MaxPieces)
StripInputs == Concats(StripPieces, MaxPieces)

\* ------------------------------------------------------ console messages
Str(s) == [str |-> TRUE, chars |-> s]

\* isArrayOfStrings(value): every item is a string
RECURSIVE isArrayOfStrings(_)
isArrayOfStrings(list) ==
    IF list = <<>> THEN TRUE ELSE Head(list).str /\ isArrayOfStrings(Tail(list))

\* no frame discarded yet
NoneDiscarded == [names |-> {}, at |-> 0]

NoReturned == [has |-> FALSE, alias |-> FALSE, items |-> <<>>]

\* The part of the state pushMessage works on: the buffer array (ids of message
\* objects), the message objects, the history, and a caller's collection
\* (which grows with the buffer array when it is that very array).
BufState == [buf |-> consoleBuffer, heap |-> heap, adm |-> admitted, ret |-> returned]

\* pushMessage trimming from the tail: slice(0, max) keeps the oldest messages
pushMessage_KeepOldest(st, line, type, shard, now, max) ==
    LET id == Len(st.heap) + 1
        entry == [line |-> stripHtmlTags(line), shard |-> shard,
                  timestamp |-> now, type |-> type]
        pushed == Append(st.buf, id)
        over == Len(pushed) > max
    IN [buf |-> IF over THEN SubSeq(pushed, 1, max) ELSE pushed,
        heap |-> Append(st.heap, entry),
        adm |-> Append(st.adm, entry),
        ret |-> st.ret]

\* pushMessage(line, type) of processConsoleMessages, at time now under bound max
pushMessage(st, line, type, shard, now, max) ==
    LET id == Len(st.heap) + 1
        entry == [line |-> stripHtmlTags(line), shard |-> shard,
                  timestamp |-> now, type |-> type]
        pushed == Append(st.buf, id)
        ret1 == IF st.ret.alias
                THEN [st.ret EXCEPT !.items = Append(@, [ref |-> id, val |-> entry])]
                ELSE st.ret
        over == Len(pushed) > max
    IN [buf |-> IF over THEN SliceLast(pushed, max) ELSE pushed,
        heap |-> Append(st.heap, entry),
        adm |-> Append(st.adm, entry),
        ret |-> IF over THEN [ret1 EXCEPT !.alias = FALSE] ELSE ret1]

\* list.forEach(line => pushMessage(line, type))
RECURSIVE pushEach(_, _, _, _, _, _)
pushEach(st, list, type, shard, now, max) ==
    IF list = <<>> THEN st
    ELSE pushEach(pushMessage(st, Head(list).chars, type, shard, now, max),
                  Tail(list), type, shard, now, max)

pushList(st, list, type, shard, now, max) ==
    IF list # <<>> /\ isArrayOfStrings(list)
    THEN pushEach(st, list, type, shard, now, max)
    ELSE st

processConsoleMessages(st, messages, shard, now, max) ==
    LET s1 == pushList(st, messages.log, "log", shard, now, max)
        s2 == pushList(s1, messages.results, "result", shard, now, max)
        s3 == pushList(s2, messages.errors, "error", shard, now, max)
    IN pushList(s3, messages.highlight, "highlight", shard, now, max)

\* a string || chain: the first non-empty one
OrElse(a, b) == IF a # "" THEN a ELSE b

\* parseSocketMessage(message): a frame that starts with 'gz' is inflated from
\* the base64 text after its first three characters and then parsed, any other
\* frame is parsed as it is; inflateSync and JSON.parse throw on what they
\* cannot read
\* The text of a frame is its prefix followed by frame.rest; Deflated stands
\* for the base64 text of the deflated JSON of frame.body.
Deflated == <<"e", "J", "y">>

\* inflateSync(Buffer.from(text, 'base64')) returns only for the base64 text
\* of a deflate stream
Inflates(text) == text = Deflated

\* message.substring(3) of a frame that starts with 'gz': the text after the
\* third character
Substring3(frame) == IF frame.rest = <<>> THEN <<>> ELSE Tail(frame.rest)

parseSocketMessage(frame) ==
    IF frame.prefix = "gz"
    THEN [ok |-> Inflates(Substring3(frame)) /\ frame.isJson, value |-> frame.body]
    ELSE [ok |-> frame.isJson, value |-> frame.body]

\* the handler without the Array.isArray test: any parsed value with messages
handleConsoleSocketPayload_AnyShape(st, frame, now, max) ==
    LET parsed == parseSocketMessage(frame)
        v == parsed.value
    IN IF ~parsed.ok THEN st
       ELSE IF v.hasMessages
            THEN processConsoleMessages(st, v.messages,
                     OrElse(v.shard, OrElse(consoleShard, config.shard)), now, max)
            ELSE st

\* handleConsoleSocketPayload(message)
handleConsoleSocketPayload(st, frame, now, max) ==
    LET parsed == parseSocketMessage(frame)
        v == parsed.value
    IN IF ~parsed.ok THEN st
       ELSE IF v.isArray /\ v.length > 1 /\ v.hasMessages
            THEN processConsoleMessages(st, v.messages,
                     OrElse(v.shard, OrElse(consoleShard, config.shard)), now, max)
            ELSE st

\* The payload frames the server delivers: one line, and six lines of all kinds.
Payload(m) == [prefix |-> "", rest |-> <<>>, isJson |-> TRUE,
               body |-> [isArray |-> TRUE, length |-> 2, hasMessages |-> TRUE,
                         messages |-> m, shard |-> ""]]
OneLine == Payload([log |-> <<Str(S_bhi)>>, results |-> <<>>, errors |-> <<>>,
                    highlight |-> <<>>])
SixLines == Payload([log |-> <<Str(S_hi), Str(S_lt), Str(S_bhi)>>,
                     results |-> <<Str(S_hi)>>, errors |-> <<Str(S_bhi)>>,
                     highlight |-> <<Str(S_hi)>>])
ConsoleFrames == {OneLine, SixLines}
AuthOkFrame == [prefix |-> "auth ok", rest |-> <<>>, isJson |-> FALSE, body |-> <<>>]
TimeFrame == [prefix |-> "time", rest |-> <<>>, isJson |-> FALSE, body |-> <<>>]

\* the one-line frame, compressed: 'gz:' and the base64 of its deflated JSON
GzOneLine == [OneLine EXCEPT !.prefix = "gz", !.rest = <<":">> \o Deflated]

\* the same without the colon: 'gz' followed directly by the base64 text
GzDirect == [OneLine EXCEPT !.prefix = "gz", !.rest = Deflated]

\* Frames that are not console payloads: text that is not JSON, a 'gz' frame
\* whose data does not inflate, a JSON object (not an array) that has a
\* messages member, an array of one element, and an array whose second
\* element has no messages member.
NotJson == [OneLine EXCEPT !.isJson = FALSE]
GzCorrupt == [OneLine EXCEPT !.prefix = "gz", !.rest = <<":", "?">>]
NotArray == [OneLine EXCEPT !.body.isArray = FALSE]
ShortArray == [OneLine EXCEPT !.body.length = 1]
NoMessages == [OneLine EXCEPT !.body.hasMessages = FALSE]
BadFrames == {NotJson, GzCorrupt, NotArray, ShortArray, NoMessages}

\* ----------------------------------------------------------- stream state
WsLive(s) == sockets[s].readyState \in {"CONNECTING", "OPEN"}

\* getConsoleStreamState()
getConsoleStreamState ==
    [shard |-> OrElse(consoleShard, config.shard),
     isActive |-> consoleSocket # 0 /\ sockets[consoleSocket].readyState = "OPEN",
     buffered |-> Len(consoleBuffer)]

\* The state machine's Subscribed: the referenced socket is open, got 'auth ok'
\* and the subscribe frame went out on it.
Subscribed ==
    /\ consoleSocket # 0
    /\ sockets[consoleSocket].readyState = "OPEN"
    /\ sockets[consoleSocket].authOk
    /\ sockets[consoleSocket].subscribed

\* the values of a caller's collection, as the caller sees them now
Values(ret) ==
    [i \in 1..Len(ret.items) |->
        IF ret.items[i].ref = 0 THEN ret.items[i].val ELSE heap[ret.items[i].ref]]

BufferValues == [i \in 1..Len(consoleBuffer) |-> heap[consoleBuffer[i]]]

\* ------------------------------------------------------------ RateLimiter
LimiterKeys == {"a", "b"}

\* Map.set(key, value)
MapSet(map, key, value) ==
    [k \in DOMAIN map \cup {key} |-> IF k = key THEN value ELSE map[k]]

\* the empty Map
EmptyMap == [k \in {} |-> <<>>]

\* requestTimes.filter(time => time > windowStart)
ValidRequests(requestTimes, windowStart) ==
    SelectSeq(requestTimes, LAMBDA time : time > windowStart)

\* allowRequest with >= in the filter: a call exactly one window old still counts
allowRequest_CountsBoundary(reqs, identifier, now, windowMs, maxRequests) ==
    LET windowStart == now - windowMs
        r1 == IF identifier \in DOMAIN reqs THEN reqs ELSE MapSet(reqs, identifier, <<>>)
        validRequests == SelectSeq(r1[identifier], LAMBDA time : time >= windowStart)
    IN IF Len(validRequests) >= maxRequests
       THEN [ok |-> FALSE, requests |-> r1]
       ELSE [ok |-> TRUE, requests |-> MapSet(r1, identifier, Append(validRequests, now))]

\* allowRequest without the test: every call is admitted
allowRequest_AdmitsAll(reqs, identifier, now, windowMs, maxRequests) ==
    LET windowStart == now - windowMs
        r1 == IF identifier \in DOMAIN reqs THEN reqs ELSE MapSet(reqs, identifier, <<>>)
        validRequests == ValidRequests(r1[identifier], windowStart)
    IN [ok |-> TRUE, requests |-> MapSet(r1, identifier, Append(validRequests, now))]

\* allowRequest that pushes the time of a refused call too
allowRequest_RecordsRejected(reqs, identifier, now, windowMs, maxRequests) ==
    LET windowStart == now - windowMs
        r1 == IF identifier \in DOMAIN reqs THEN reqs ELSE MapSet(reqs, identifier, <<>>)
        validRequests == ValidRequests(r1[identifier], windowStart)
    IN [ok |-> Len(validRequests) < maxRequests,
        requests |-> MapSet(r1, identifier, Append(validRequests, now))]

\* RateLimiter.allowRequest(identifier) at time now: the answer and the map
allowRequest(reqs, identifier, now, windowMs, maxRequests) ==
    LET windowStart == now - windowMs
        r1 == IF identifier \in DOMAIN reqs THEN reqs ELSE MapSet(reqs, identifier, <<>>)
        validRequests == ValidRequests(r1[identifier], windowStart)
    IN IF Len(validRequests) >= maxRequests
       THEN [ok |-> FALSE, requests |-> r1]
       ELSE [ok |-> TRUE, requests |-> MapSet(r1, identifier, Append(validRequests, now))]

\* cleanup that prunes the lists and deletes no key
cleanup_DeletesNothing(reqs, now, windowMs) ==
    [k \in DOMAIN reqs |-> ValidRequests(reqs[k], now - windowMs)]

\* cleanup that clears the map
cleanup_ForgetsAll(reqs, now, windowMs) == EmptyMap

\* RateLimiter.cleanup() at time now
cleanup(reqs, now, windowMs) ==
    LET windowStart == now - windowMs
        kept == {k \in DOMAIN reqs : ValidRequests(reqs[k], windowStart) # <<>>}
    IN [k \in kept |-> ValidRequests(reqs[k], windowStart)]

\* the history of allowRequest calls on a key (none when never asked)
Asked(key) == IF key \in DOMAIN asked THEN asked[key] ELSE <<>>

\* no one-shot call, no request sent, no function applied, no call dispatched
Tasks == 1..MaxTasks
IdleTask == [pc |-> "idle", kind |-> "", stack |-> <<>>, lazy |-> FALSE]
\* the string arguments of the client operations that take sanitized strings
NoValue == [type |-> "undefined", chars |-> <<>>, val |-> 0, int |-> FALSE]
NoStrings == [command |-> NoValue, path |-> NoValue, value |-> NoValue, data |-> NoValue]
NoFlow == [name |-> "", given |-> NoStrings, segment |-> NoValue, valid |-> FALSE,
           cleaned |-> FALSE, invoked |-> FALSE, passed |-> NoStrings]
NoProbe == [fn |-> "", arg |-> <<>>, out |-> <<>>]
\* no call has begun, no auth frame was answered, the reader has not polled
NoBefore == [max |-> 0, shard |-> "", buffer |-> <<>>]
NoReader == [since |-> NoArg, count |-> 0, at |-> 0, fits |-> TRUE]
MoreInit ==
    /\ flow = NoFlow
    /\ tasks = [t \in Tasks |-> IdleTask]
    /\ http = <<>>
    /\ probe = NoProbe
    /\ answered = [s \in Calls |-> ""]
    /\ before = [c \in Calls |-> NoBefore]
    /\ reader = NoReader

\* no tool call has returned yet
NoResult == [has |-> FALSE, threw |-> FALSE, isError |-> FALSE, text |-> <<>>]

\* ------------------------------------------------------------------- Init
\* new ScreepsTools(config): an empty rate limiter, authentication not begun
ToolsInit ==
    /\ requests = EmptyMap
    /\ apiReady = [state |-> "pending", reason |-> ""]
    /\ authCall = [pc |-> "idle", depth |-> 0]
    /\ toolCall = [pc |-> "idle", n |-> 0, name |-> "", pass |-> NoStrings]
    /\ result = NoResult
    /\ asked = EmptyMap
    /\ clientOps = 0
    /\ validated = 0
    /\ MoreInit

NoSocket == [readyState |-> "NONE", resolved |-> FALSE, onError |-> FALSE,
             authOk |-> FALSE, subscribed |-> FALSE, sent |-> <<>>]

\* new WebSocket(wsUrl) with the handlers of startConsoleStream attached
NewSocket == [readyState |-> "CONNECTING", resolved |-> FALSE, onError |-> TRUE,
              authOk |-> FALSE, subscribed |-> FALSE, sent |-> <<>>]

Pending == {"auth_token", "auth_user", "handshake"}
Settled == {"resolved", "rejected"}

\* new ScreepsAPI(config), with a token or with a username and password
StreamRest ==
    /\ consoleSocket = 0
    /\ consoleBuffer = <<>>
    /\ consoleShard = ""
    /\ maxConsoleBuffer = DefaultMaxConsoleBuffer
    /\ heap = <<>>
    /\ sockets = [c \in Calls |-> NoSocket]
    /\ calls = [c \in Calls |-> [pc |-> "idle", shard |-> ""]]
    /\ clock = 1
    /\ returned = NoReturned
    /\ admitted = <<>>
    /\ boundFixed = TRUE
    /\ nFrames = 0
    /\ stopDuring = [c \in Calls |-> FALSE]
    /\ stopped = FALSE
    /\ raised = FALSE
    /\ snap = <<>>
    /\ discarded = NoneDiscarded

\* The credentials of a configuration: a token, a username and password,
\* neither, or both
HasToken(cfg) == cfg.cred \in {"token", "both"}
HasPair(cfg) == cfg.cred \in {"password", "both"}

\* the instance apart from its configuration: the constructor keeps the token
\* of the configuration
ApiInit ==
    /\ token = IF HasToken(config) THEN "T" ELSE ""
    /\ userId = ""
    /\ StreamRest

StreamInit ==
    /\ config \in {[shard |-> "shard0", cred |-> "token"],
                   [shard |-> "shard0", cred |-> "password"]}
    /\ ApiInit

Init == StreamInit /\ ToolsInit

\* ---------------------------------------------------- startConsoleStream
\* ws.close(): a connecting or open socket starts closing
WsClose(sock) ==
    IF sock.readyState \in {"CONNECTING", "OPEN"}
    THEN [sock EXCEPT !.readyState = "CLOSING"] ELSE sock

\* the clamp without its lower end: Math.min(bufferSize, 5000)
Clamped_NoMinimum(bufferSize) ==
    IF bufferSize.has /\ bufferSize.val > 0
    THEN Min(bufferSize.val, MaxBufferSize)
    ELSE maxConsoleBuffer

\* Math.min(Math.max(bufferSize, 10), 5000) when a positive number is given
Clamped(bufferSize) ==
    IF bufferSize.has /\ bufferSize.val > 0
    THEN Min(Max(bufferSize.val, MinBufferSize), MaxBufferSize)
    ELSE maxConsoleBuffer

\* startConsoleStream from `const targetShard` on: return if the referenced
\* socket is open, else create a socket, reference it and await the handshake
Connect(c, shard) ==
    /\ consoleShard' = OrElse(shard, config.shard)
    /\ IF consoleSocket # 0 /\ sockets[consoleSocket].readyState = "OPEN"
       THEN /\ calls' = [calls EXCEPT ![c].pc = "resolved", ![c].shard = ""]
            /\ UNCHANGED <<sockets, consoleSocket>>
       ELSE /\ sockets' = [sockets EXCEPT ![c] = NewSocket]
            /\ consoleSocket' = c
            /\ calls' = [calls EXCEPT ![c].pc = "handshake", ![c].shard = ""]

\* startConsoleStream(shard, bufferSize) up to its first await
startConsoleStream(c, shard, bufferSize) ==
    /\ calls[c].pc = "idle"
    /\ \A d \in Calls : d < c => calls[d].pc # "idle"
    /\ maxConsoleBuffer' = Clamped(bufferSize)
    /\ boundFixed' = (boundFixed /\ (admitted = <<>> \/ Clamped(bufferSize) = maxConsoleBuffer))
    /\ stopped' = FALSE
    /\ IF token = "" \/ userId = ""
       THEN \* await this.authenticate()
            /\ calls' = [calls EXCEPT ![c].pc = IF token # "" THEN "auth_user" ELSE "auth_token",
                                      ![c].shard = shard]
            /\ UNCHANGED <<consoleShard, sockets, consoleSocket>>
       ELSE Connect(c, shard)
    /\ UNCHANGED <<config, token, userId, consoleBuffer, heap, clock, returned,
                   admitted, nFrames, stopDuring, raised, snap>>

ShardArgs == {"", "shard1"}
BufferSizeArgs == {NoArg, Some(3)}

StartConsoleStream(c) ==
    \E shard \in ShardArgs, bufferSize \in BufferSizeArgs :
        startConsoleStream(c, shard, bufferSize)

\* ConsoleStreamStartArgsSchema: bufferSize an integer in [10, 5000], default 500
ValidStreamStartArgs(args) ==
    args.bufferSize.has =>
        (args.bufferSize.val >= SchemaMinBufferSize /\ args.bufferSize.val <= SchemaMaxBufferSize)

\* handleConsoleStreamStart(args): validate, then api.startConsoleStream(shard, bufferSize)
handleConsoleStreamStart(c, args) ==
    IF ValidStreamStartArgs(args)
    THEN startConsoleStream(c, args.shard,
             IF args.bufferSize.has THEN args.bufferSize
             ELSE Some(SchemaDefaultBufferSize))
    ELSE /\ calls[c].pc = "idle"
         /\ UNCHANGED vars

NoToolArgs == [shard |-> "", bufferSize |-> NoArg]
ToolArgs == {NoToolArgs, [shard |-> "", bufferSize |-> Some(3)]}

HandleConsoleStreamStart(c) ==
    \E args \in ToolArgs : handleConsoleStreamStart(c, args)

\* authenticate(), username and password: the token exchange answers
AuthTokenResponse(c) ==
    /\ calls[c].pc = "auth_token"
    /\ \E ok \in BOOLEAN :
        IF ok
        THEN /\ token' = "T"
             /\ calls' = [calls EXCEPT ![c].pc = "auth_user"]
        ELSE /\ calls' = [calls EXCEPT ![c].pc = "rejected"]
             /\ UNCHANGED token
    /\ UNCHANGED <<config, userId, consoleSocket, consoleBuffer, consoleShard,
                   maxConsoleBuffer, heap, sockets, clock, returned, admitted,
                   boundFixed, nFrames, stopDuring, stopped, raised, snap>>

\* the answers to /api/user/me: an error status, a body with _id, and a body
\* without it ({} stands for an empty body, too)
UserResponses == {"fail", "id", "no_id"}

\* getUserInfo(): the who-am-I request answers; on success the call goes on,
\* with the _id of the body as user id, whatever it is
AuthUserResponse(c) ==
    /\ calls[c].pc = "auth_user"
    /\ \E response \in UserResponses :
        IF response # "fail"
        THEN /\ userId' = IF response = "id" THEN "U" ELSE ""
             /\ Connect(c, calls[c].shard)
        ELSE /\ calls' = [calls EXCEPT ![c].pc = "rejected"]
             /\ UNCHANGED <<userId, consoleShard, sockets, consoleSocket>>
    /\ UNCHANGED <<config, token, consoleBuffer, maxConsoleBuffer, heap, clock,
                   returned, admitted, boundFixed, nFrames, stopDuring, stopped,
                   raised, snap>>

\* ------------------------------------------------------- socket handlers
\* the .catch of startConsoleStream: this.consoleSocket = undefined; ws.close()
\* (the socket record given is the one the event left behind)
Reject(s, sock) ==
    /\ sockets' = [sockets EXCEPT ![s] = WsClose([sock EXCEPT !.resolved = TRUE])]
    /\ consoleSocket' = 0
    /\ calls' = [calls EXCEPT ![s].pc = "rejected"]

\* ws.on('open'): ws.send(`auth ${this.token}`)
SocketOpen(s) ==
    /\ sockets[s].readyState = "CONNECTING"
    /\ sockets' = [sockets EXCEPT ![s].readyState = "OPEN",
                                  ![s].sent = Append(@, [cmd |-> "auth", arg |-> token])]
    /\ UNCHANGED <<config, token, userId, consoleSocket, consoleBuffer, consoleShard,
                   maxConsoleBuffer, heap, calls, clock, returned, admitted,
                   boundFixed, nFrames, stopDuring, stopped, raised, snap>>

\* ws.once('error', handleError).  The ws library leaves OPEN before it emits
\* 'error'.  The listener is registered once: an 'error' event that finds no
\* listener is thrown by the emitter.
SocketError(s) ==
    /\ sockets[s].readyState \in {"CONNECTING", "OPEN", "CLOSING"}
    /\ LET sock == [sockets[s] EXCEPT !.readyState = "CLOSING", !.onError = FALSE]
       IN IF sockets[s].onError
          THEN /\ IF ~sockets[s].resolved
                  THEN Reject(s, sock)
                  ELSE /\ sockets' = [sockets EXCEPT ![s] = sock]
                       /\ UNCHANGED <<consoleSocket, calls>>
               /\ UNCHANGED raised
          ELSE /\ sockets' = [sockets EXCEPT ![s] = sock]
               /\ raised' = TRUE
               /\ UNCHANGED <<consoleSocket, calls>>
    /\ UNCHANGED <<config, token, userId, consoleBuffer, consoleShard,
                   maxConsoleBuffer, heap, clock, returned, admitted, boundFixed,
                   nFrames, stopDuring, stopped, snap>>

\* ws.once('close', ...): the socket is closed when the event is emitted
SocketClose(s) ==
    /\ sockets[s].readyState \in {"CONNECTING", "OPEN", "CLOSING"}
    /\ LET sock == [sockets[s] EXCEPT !.readyState = "CLOSED"]
       IN IF ~sockets[s].resolved
          THEN Reject(s, sock)
          ELSE /\ sockets' = [sockets EXCEPT ![s] = sock]
               /\ UNCHANGED <<consoleSocket, calls>>
    /\ UNCHANGED <<config, token, userId, consoleBuffer, consoleShard,
                   maxConsoleBuffer, heap, clock, returned, admitted, boundFixed,
                   nFrames, stopDuring, stopped, raised, snap>>

\* ws.on('message'), message.startsWith('auth ok'): send the subscribe frame
\* (ws drops a frame sent on a socket that is no longer open) and resolve
OnAuthOk(s) ==
    /\ sockets[s].readyState \in {"OPEN", "CLOSING"}
    /\ LET open == sockets[s].readyState = "OPEN"
       IN sockets' = [sockets EXCEPT
              ![s].authOk = TRUE,
              ![s].subscribed = @ \/ open,
              ![s].sent = IF open THEN Append(@, [cmd |-> "subscribe", arg |-> userId])
                          ELSE @,
              ![s].resolved = TRUE]
    /\ calls' = IF sockets[s].resolved THEN calls
                ELSE [calls EXCEPT ![s].pc = "resolved"]
    /\ UNCHANGED <<config, token, userId, consoleSocket, consoleBuffer, consoleShard,
                   maxConsoleBuffer, heap, clock, returned, admitted, boundFixed,
                   nFrames, stopDuring, stopped, raised, snap>>

\* ws.on('message'), message.startsWith('time'): nothing
OnHeartbeat(s) ==
    /\ sockets[s].readyState \in {"OPEN", "CLOSING"}
    /\ UNCHANGED vars

\* ws.on('message'), any other frame: this.handleConsoleSocketPayload(message)
OnPayload(s, frame, limit) ==
    /\ sockets[s].readyState \in {"OPEN", "CLOSING"}
    /\ nFrames < limit
    /\ nFrames' = nFrames + 1
    /\ LET st == handleConsoleSocketPayload(BufState, frame, clock, maxConsoleBuffer)
       IN /\ consoleBuffer' = st.buf
          /\ heap' = st.heap
          /\ admitted' = st.adm
          /\ returned' = st.ret
    /\ UNCHANGED <<config, token, userId, consoleSocket, consoleShard,
                   maxConsoleBuffer, sockets, calls, clock, boundFixed,
                   stopDuring, stopped, raised, snap>>

\* The server answers the auth frame once, and sends console frames on a
\* connection that has subscribed.
ServerAuthOk(s) ==
    /\ sockets[s].sent # <<>>
    /\ ~sockets[s].authOk
    /\ OnAuthOk(s)

ServerHeartbeat(s) == OnHeartbeat(s)

ServerConsole(s, frames, limit) ==
    /\ sockets[s].subscribed
    /\ \E frame \in frames : OnPayload(s, frame, limit)

\* The server sends a frame that is not a console payload; the history notes
\* which, and how many messages had been admitted by then.
ServerOther(s) ==
    /\ sockets[s].subscribed
    /\ \E frame \in BadFrames :
          /\ OnPayload(s, frame, MaxAllFrames)
          /\ discarded' = [names |-> discarded.names \cup {frame}, at |-> Len(admitted)]
    /\ UNCHANGED toolVars

\* ------------------------------------------------------ stop, read, clock
stopConsoleStream ==
    /\ sockets' = IF consoleSocket # 0
                  THEN [sockets EXCEPT ![consoleSocket] = WsClose(@)]
                  ELSE sockets
    /\ consoleSocket' = 0
    /\ stopped' = TRUE
    /\ stopDuring' = [c \in Calls |-> stopDuring[c] \/ calls[c].pc \in Pending]
    /\ UNCHANGED <<config, token, userId, consoleBuffer, consoleShard,
                   maxConsoleBuffer, heap, calls, clock, returned, admitted,
                   boundFixed, nFrames, raised, snap>>

Tick ==
    /\ clock < MaxClock
    /\ clock' = clock + 1
    /\ UNCHANGED <<config, token, userId, consoleSocket, consoleBuffer, consoleShard,
                   maxConsoleBuffer, heap, sockets, calls, returned, admitted,
                   boundFixed, nFrames, stopDuring, stopped, raised, snap>>

\* the filter with >= in place of >: a message stamped `since` stays eligible
Filtered_Inclusive(arr, since) ==
    IF since.has
    THEN [alias |-> FALSE,
          refs |-> SelectSeq(arr.refs, LAMBDA id : heap[id].timestamp >= since.val)]
    ELSE arr

\* messages.filter(msg => (msg.timestamp || 0) > since): a new array
Filtered(arr, since) ==
    IF since.has
    THEN [alias |-> FALSE,
          refs |-> SelectSeq(arr.refs, LAMBDA id : heap[id].timestamp > since.val)]
    ELSE arr

\* messages.slice(-limit) when limit > 0: a new array
Sliced(arr, limit) ==
    IF limit > 0 THEN [alias |-> FALSE, refs |-> SliceLast(arr.refs, limit)] ELSE arr

\* `return messages`: the array and the message objects as they are
Copied_NoCopy(arr) ==
    [alias |-> arr.alias,
     items |-> [i \in 1..Len(arr.refs) |-> [ref |-> arr.refs[i], val |-> heap[arr.refs[i]]]]]

\* messages.map(msg => ({ ...msg })): a new array of new objects
Copied(arr) ==
    [alias |-> FALSE,
     items |-> [i \in 1..Len(arr.refs) |-> [ref |-> 0, val |-> heap[arr.refs[i]]]]]

\* getBufferedConsoleMessages(limit, since)
getBufferedConsoleMessages(limit, since) ==
    Copied(Sliced(Filtered([alias |-> TRUE, refs |-> consoleBuffer], since), limit))

Limits == {-1, 0, 2, 50}
Sinces == {NoArg, Some(1)}

\* a caller reads the buffer and keeps what it got
Read(limit, since) ==
    LET got == getBufferedConsoleMessages(limit, since)
    IN /\ returned' = [has |-> TRUE, alias |-> got.alias, items |-> got.items]
       /\ snap' = Values([items |-> got.items])
       /\ UNCHANGED <<config, token, userId, consoleSocket, consoleBuffer,
                      consoleShard, maxConsoleBuffer, heap, sockets, calls, clock,
                      admitted, boundFixed, nFrames, stopDuring, stopped, raised>>

GetBufferedConsoleMessages ==
    \E limit \in Limits, since \in Sinces : Read(limit, since)

S_tampered == <<"x">>

\* a caller writes the line of the i-th message of the collection it holds
CallerMutates ==
    \E i \in 1..Len(returned.items) :
        /\ \A j \in 1..Len(snap) : snap[j].line # S_tampered
        /\ IF returned.items[i].ref = 0
           THEN /\ returned' = [returned EXCEPT !.items[i].val.line = S_tampered]
                /\ UNCHANGED heap
           ELSE /\ heap' = [heap EXCEPT ![returned.items[i].ref].line = S_tampered]
                /\ UNCHANGED returned
        /\ snap' = [snap EXCEPT ![i].line = S_tampered]
        /\ UNCHANGED <<config, token, userId, consoleSocket, consoleBuffer,
                       consoleShard, maxConsoleBuffer, sockets, calls, clock,
                       admitted, boundFixed, nFrames, stopDuring, stopped, raised>>

\* ------------------------------------------------------------------- Next
\* process.on('uncaughtException'): the process exits
Running == ~raised

\* a step of the stream that is not the discarding of a frame
StreamOnly == UNCHANGED <<discarded, toolVars>>

\* The stream's life cycle: every call, every socket event, one console frame.
Next ==
    \/ \E c \in Calls : Running /\ StartConsoleStream(c) /\ StreamOnly
    \/ \E c \in Calls : Running /\ HandleConsoleStreamStart(c) /\ StreamOnly
    \/ \E c \in Calls : Running /\ AuthUserResponse(c) /\ StreamOnly
    \/ \E s \in Calls : Running /\ SocketOpen(s) /\ StreamOnly
    \/ \E s \in Calls : Running /\ SocketError(s) /\ StreamOnly
    \/ \E s \in Calls : Running /\ SocketClose(s) /\ StreamOnly
    \/ \E s \in Calls : Running /\ ServerAuthOk(s) /\ StreamOnly
    \/ \E s \in Calls : Running /\ ServerHeartbeat(s) /\ StreamOnly
    \/ \E s \in Calls : Running /\ ServerConsole(s, {OneLine}, MaxFrames) /\ StreamOnly
    \/ Running /\ stopConsoleStream /\ StreamOnly

InitToken == Init /\ config.cred = "token"

Spec == InitToken /\ [][Next]_vars

\* The buffer and its readers: every operation that touches the buffer, its
\* bound or a reader's collection, against a server and sockets that do not fail.
NextBuffer ==
    \/ \E c \in Calls : StartConsoleStream(c) /\ StreamOnly
    \/ \E c \in Calls : AuthUserResponse(c) /\ StreamOnly
    \/ \E s \in Calls : SocketOpen(s) /\ StreamOnly
    \/ \E s \in Calls : ServerAuthOk(s) /\ StreamOnly
    \/ \E s \in Calls : ServerConsole(s, ConsoleFrames, MaxBufFrames) /\ StreamOnly
    \/ stopConsoleStream /\ StreamOnly
    \/ Tick /\ StreamOnly

SpecBuffer == InitToken /\ [][NextBuffer]_vars

\* The state of a fresh instance (token configured) once its first call,
\* startConsoleStream(), has resolved: call 1 is Subscribed on socket 1.
InitSubscribed ==
    /\ config = [shard |-> "shard0", cred |-> "token"]
    /\ token = "T"
    /\ userId = "U"
    /\ consoleSocket = 1
    /\ consoleBuffer = <<>>
    /\ consoleShard = "shard0"
    /\ maxConsoleBuffer = DefaultMaxConsoleBuffer
    /\ heap = <<>>
    /\ sockets = [c \in Calls |->
                    IF c = 1
                    THEN [readyState |-> "OPEN", resolved |-> TRUE, onError |-> TRUE,
                          authOk |-> TRUE, subscribed |-> TRUE,
                          sent |-> <<[cmd |-> "auth", arg |-> "T"],
                                     [cmd |-> "subscribe", arg |-> "U"]>>]
                    ELSE NoSocket]
    /\ calls = [c \in Calls |-> [pc |-> IF c = 1 THEN "resolved" ELSE "idle", shard |-> ""]]
    /\ clock = 1
    /\ returned = NoReturned
    /\ admitted = <<>>
    /\ boundFixed = TRUE
    /\ nFrames = 0
    /\ stopDuring = [c \in Calls |-> FALSE]
    /\ stopped = FALSE
    /\ raised = FALSE
    /\ snap = <<>>
    /\ discarded = NoneDiscarded
    /\ ToolsInit

\* Readers of a running stream: the calls that follow the first one, console
\* frames, stop, the clock, reads, and a caller writing to what it read.
NextRead ==
    \/ \E c \in Calls : StartConsoleStream(c) /\ StreamOnly
    \/ \E s \in Calls : SocketOpen(s) /\ StreamOnly
    \/ \E s \in Calls : ServerAuthOk(s) /\ StreamOnly
    \/ \E s \in Calls : ServerConsole(s, ConsoleFrames, MaxBufFrames) /\ StreamOnly
    \/ stopConsoleStream /\ StreamOnly
    \/ Tick /\ StreamOnly
    \/ GetBufferedConsoleMessages /\ StreamOnly
    \/ CallerMutates /\ StreamOnly

SpecRead == InitSubscribed /\ [][NextRead]_vars

\* ------------------------------------------------------- the rate limiter
\* a caller asks the limiter (window windowMs, maximum maxRequests)
AllowRequest(key, windowMs, maxRequests) ==
    /\ Len(Asked(key)) < MaxAsks
    /\ LET got == allowRequest(requests, key, clock, windowMs, maxRequests)
       IN /\ requests' = got.requests
          /\ asked' = MapSet(asked, key, Append(Asked(key), [time |-> clock, ok |-> got.ok]))
    /\ UNCHANGED <<flow, moreVars, streamVars, token, userId, clock, apiReady, authCall, toolCall,
                   result, clientOps, validated>>

\* the cleanup timer fires
Cleanup(windowMs) ==
    /\ requests' = cleanup(requests, clock, windowMs)
    /\ UNCHANGED <<flow, moreVars, streamVars, token, userId, clock, apiReady, authCall, toolCall,
                   result, asked, clientOps, validated>>

\* time passes: d milliseconds, up to the instant limit
Elapse(d, limit) ==
    /\ clock + d <= limit
    /\ clock' = clock + d
    /\ UNCHANGED <<streamVars, token, userId, toolVars>>

\* A RateLimiter(LimiterWindow, LimiterMax) asked on two keys as time passes.
NextLimiter ==
    \/ \E key \in LimiterKeys : AllowRequest(key, LimiterWindow, LimiterMax)
    \/ Cleanup(LimiterWindow)
    \/ Elapse(1, MaxTime)

SpecLimiter == InitToken /\ [][NextLimiter]_vars

\* ------------------------------------------------- tool argument contracts
\* JavaScript values as the schemas see them
Undef == NoValue
StrV(chars) == [type |-> "string", chars |-> chars, val |-> 0, int |-> FALSE]
IntV(n) == [type |-> "number", chars |-> <<>>, val |-> n, int |-> TRUE]
\* a number with a fractional part, val its integer part
FracV(n) == [type |-> "number", chars |-> <<>>, val |-> n, int |-> FALSE]

IsStr(v, min, max) == v.type = "string" /\ Len(v.chars) >= min /\ Len(v.chars) <= max
IsInt(v, min, max) == v.type = "number" /\ v.int /\ v.val >= min /\ v.val <= max
IsUndef(v) == v.type = "undefined"

DigitChars == {"0", "1", "2", "3", "4", "5", "6", "7", "8", "9"}

\* what is left of s after its leading digits
RECURSIVE SkipDigits(_)
SkipDigits(s) ==
    IF s # <<>> /\ Head(s) \in DigitChars THEN SkipDigits(Tail(s)) ELSE s

\* the pattern without its anchors: /[EW]\d+[NS]\d+/ finds a match in s
RECURSIVE MatchesRoomName_Unanchored(_)
MatchesRoomName_Unanchored(s) ==
    /\ s # <<>>
    /\ \/ /\ Head(s) \in {"E", "W"}
          /\ LET r1 == Tail(s)
                 r2 == SkipDigits(r1)
             IN /\ Len(r2) < Len(r1)
                /\ r2 # <<>>
                /\ Head(r2) \in {"N", "S"}
                /\ Len(SkipDigits(Tail(r2))) < Len(Tail(r2))
       \/ MatchesRoomName_Unanchored(Tail(s))

\* /^[EW]\d+[NS]\d+$/.test(s)
MatchesRoomName(s) ==
    /\ s # <<>>
    /\ Head(s) \in {"E", "W"}
    /\ LET r1 == Tail(s)
           r2 == SkipDigits(r1)
       IN /\ Len(r2) < Len(r1)
          /\ r2 # <<>>
          /\ Head(r2) \in {"N", "S"}
          /\ LET r3 == Tail(r2)
             IN Len(SkipDigits(r3)) < Len(r3) /\ SkipDigits(r3) = <<>>

\* the schemas of types.ts: schema.parse(args) succeeds
SchemaAccepts(schema, args) ==
    /\ args.isObject
    /\ CASE schema = "ConsoleCommandArgs" ->
              /\ IsStr(args.command, 1, MaxCommandLength)
              /\ (IsUndef(args.shard) \/ args.shard.type = "string")
         [] schema = "ConsoleHistoryArgs" ->
              IsUndef(args.limit) \/ IsInt(args.limit, 1, MaxHistoryLimit)
         [] schema = "ConsoleStreamStartArgs" ->
              /\ (IsUndef(args.shard) \/ args.shard.type = "string")
              /\ (IsUndef(args.bufferSize)
                    \/ IsInt(args.bufferSize, SchemaMinBufferSize, SchemaMaxBufferSize))
         [] schema = "ConsoleStreamReadArgs" ->
              /\ (IsUndef(args.limit) \/ IsInt(args.limit, 1, MaxReadLimit))
              /\ (IsUndef(args.since)
                    \/ (args.since.type = "number" /\ args.since.int /\ args.since.val > 0))
         [] schema = "RoomNameArgs" ->
              args.roomName.type = "string" /\ MatchesRoomName(args.roomName.chars)
         [] schema = "MemoryPathArgs" -> IsStr(args.path, 1, MaxPathLength)
         [] schema = "MemorySetArgs" ->
              IsStr(args.path, 1, MaxPathLength) /\ IsStr(args.value, 0, MaxValueLength)
         [] schema = "MemorySegmentArgs" -> IsInt(args.segment, 0, MaxSegment)
         [] schema = "MemorySegmentSetArgs" ->
              IsInt(args.segment, 0, MaxSegment) /\ IsStr(args.data, 0, MaxValueLength)

\* The tools of handleToolCall: the schema the handler validates against
\* ("" when it takes no arguments), the context of its formatApiError, and
\* whether its client operation returns without awaiting.
ToolOf(schema, context, sync) == [schema |-> schema, context |-> context, sync |-> sync]
Tools ==
    [screeps_connection_status |-> ToolOf("", "getting connection status", TRUE),
     screeps_console_command |-> ToolOf("ConsoleCommandArgs", "executing console command", FALSE),
     screeps_console_history |-> ToolOf("ConsoleHistoryArgs", "fetching console history", FALSE),
     screeps_console_stream_start |-> ToolOf("ConsoleStreamStartArgs", "starting console stream", FALSE),
     screeps_console_stream_read |-> ToolOf("ConsoleStreamReadArgs", "reading console stream", TRUE),
     screeps_console_stream_stop |-> ToolOf("", "stopping console stream", TRUE),
     screeps_user_info |-> ToolOf("", "fetching user info", FALSE),
     screeps_shards_info |-> ToolOf("", "fetching shard info", FALSE),
     screeps_room_objects |-> ToolOf("RoomNameArgs", "fetching room objects", FALSE),
     screeps_room_terrain |-> ToolOf("RoomNameArgs", "fetching room terrain", FALSE),
     screeps_memory_get |-> ToolOf("MemoryPathArgs", "getting memory value", FALSE),
     screeps_memory_set |-> ToolOf("MemorySetArgs", "setting memory value", FALSE),
     screeps_memory_delete |-> ToolOf("MemoryPathArgs", "deleting memory value", FALSE),
     screeps_memory_segment_get |-> ToolOf("MemorySegmentArgs", "getting memory segment", FALSE),
     screeps_memory_segment_set |-> ToolOf("MemorySegmentSetArgs", "setting memory segment", FALSE)]
KnownTools == DOMAIN Tools

\* ---------------------------------------------------------- error results
\* thrown values: an Error with a message, and null
ErrorV(message) == [isError |-> TRUE, message |-> message]
NullV == [isError |-> FALSE, message |-> ""]

\* what a function did: returned a value, or threw
Returned(value) == [threw |-> FALSE, value |-> value, error |-> NullV]
Threw(error) == [threw |-> TRUE, value |-> [isError |-> FALSE, text |-> <<>>], error |-> error]

\* a text is the sequence of its parts
ContextText(context) == IF context # <<>> THEN <<" (">> \o context \o <<")">> ELSE <<>>

\* ErrorHandler.formatValidationError(error)
formatValidationError(issues) ==
    [isError |-> TRUE, text |-> <<"Validation Error", ":\n", issues>>]

\* formatApiError without the message of the error
formatApiError_NoMessage(error, context) ==
    IF error = NullV
    THEN Threw(ErrorV("Cannot read properties of null (reading 'message')"))
    ELSE Returned([isError |-> TRUE,
                   text |-> <<"API Error">> \o ContextText(context) \o <<": ">>])

\* ErrorHandler.formatApiError(error, context): reading error.message throws
\* a TypeError when the value thrown was null
formatApiError(error, context) ==
    IF error = NullV
    THEN Threw(ErrorV("Cannot read properties of null (reading 'message')"))
    ELSE Returned([isError |-> TRUE,
                   text |-> <<"API Error">> \o ContextText(context)
                                \o <<": ", error.message>>])

\* ErrorHandler.formatGenericError(error, context)
formatGenericError(error, context) ==
    LET errorMessage == IF error.isError THEN error.message ELSE "null"
    IN [isError |-> TRUE,
        text |-> <<"Error">> \o ContextText(context) \o <<": ", errorMessage>>]

\* the result of handleToolCall when the limiter refuses, and for a name
\* that is not in its switch
RateLimitResult ==
    [isError |-> TRUE,
     text |-> <<"Rate limit exceeded. Please wait before making more requests.">>]
UnknownToolResult(name) == [isError |-> TRUE, text |-> <<"Unknown tool: ", name>>]

\* what a handler returns when its operation succeeded
SuccessResult(name) == [isError |-> FALSE, text |-> <<"ok: ", name>>]

\* handleToolCall without its try/catch: what the handler threw escapes
Caught_NoCatch(outcome, name) == outcome

\* the try/catch of handleToolCall around the handlers
Caught(outcome, name) ==
    IF outcome.threw
    THEN Returned(formatGenericError(outcome.error, <<"handling tool ", name>>))
    ELSE outcome

\* ------------------------------------------------ authenticate, apiReady
\* the authenticate() call settles: apiReady resolves, or rejects with the
\* error; the embedding program may end the process on a rejection
\* (main of index.ts does: process.exit(1))
AuthSettles(pc, reason, exits) ==
    /\ authCall' = [authCall EXCEPT !.pc = pc]
    /\ apiReady' = [state |-> IF pc = "done" THEN "resolved" ELSE "rejected",
                    reason |-> reason]
    /\ raised' = (pc = "failed" /\ exits)

\* authenticate() without a token: the answer to the token request
\* (generateAuthToken or /api/auth/signin).  A body without a token leaves
\* this.token undefined, and apiRequest then calls authenticate() again.
TokenResponses == {"fail", "token", "no_token"}
AuthTokenSettles(response) ==
    /\ authCall.pc = "token"
    /\ CASE response = "fail" ->
              /\ \E exits \in BOOLEAN : AuthSettles("failed", "Authentication failed", exits)
              /\ UNCHANGED token
         [] response = "token" ->
              /\ token' = "T"
              /\ authCall' = [authCall EXCEPT !.pc = "user"]
              /\ UNCHANGED <<apiReady, raised>>
         [] response = "no_token" ->
              /\ authCall.depth < MaxAuthDepth
              /\ token' = ""
              /\ authCall' = [authCall EXCEPT !.depth = @ + 1]
              /\ UNCHANGED <<apiReady, raised>>
    /\ UNCHANGED <<flow, moreVars, quietVars, userId, clock, requests, toolCall, result, asked,
                   clientOps, validated>>

\* getUserInfo(): the answer to /api/user/me.  apiRequest returns the parsed
\* body, {} for an empty body, and getUserInfo stores its _id as it is.  When
\* the authenticate() that returns was called by apiRequest, the request that
\* called it goes on: /api/user/me is asked again.
AuthUserSettles(response) ==
    /\ authCall.pc = "user"
    /\ IF response = "fail"
       THEN /\ \E exits \in BOOLEAN : AuthSettles("failed", "API request failed", exits)
            /\ UNCHANGED userId
       ELSE /\ userId' = IF response = "id" THEN "U" ELSE ""
            /\ IF authCall.depth > 0
               THEN /\ authCall' = [authCall EXCEPT !.depth = @ - 1]
                    /\ UNCHANGED <<apiReady, raised>>
               ELSE AuthSettles("done", "", FALSE)
    /\ UNCHANGED <<flow, moreVars, quietVars, token, clock, requests, toolCall, result, asked,
                   clientOps, validated>>

\* ------------------------------------------------------------ handleToolCall
ToolKey(name) == <<"tool:", name>>

\* handleToolCall returns (or throws) what its try/catch lets out
ToolReturns(outcome, name) ==
    LET final == Caught(outcome, name)
    IN /\ result' = [has |-> TRUE, threw |-> final.threw,
                     isError |-> final.value.isError, text |-> final.value.text]
       /\ toolCall' = [toolCall EXCEPT !.pc = "idle", !.name = "", !.pass = NoStrings]

\* the handlers that sanitize: the string fields they take from the validated
\* arguments, each with its sanitizer
SanitizingTools == {"screeps_console_command", "screeps_memory_get", "screeps_memory_set",
                    "screeps_memory_delete", "screeps_memory_segment_set"}
GivenStrings(name, args) ==
    [command |-> IF name = "screeps_console_command" THEN args.command ELSE NoValue,
     path |-> IF name \in {"screeps_memory_get", "screeps_memory_set", "screeps_memory_delete"}
              THEN args.path ELSE NoValue,
     value |-> IF name = "screeps_memory_set" THEN args.value ELSE NoValue,
     data |-> IF name = "screeps_memory_segment_set" THEN args.data ELSE NoValue]

\* the handlers passing the validated strings on as they are
Sanitized_Raw(name, args) == GivenStrings(name, args)

\* sanitizedCommand, sanitizedPath, sanitizedValue, sanitizedData of the handlers
Sanitized(name, args) ==
    LET given == GivenStrings(name, args)
    IN [command |-> IF given.command.type = "string"
                    THEN StrV(sanitizeConsoleCommand(given.command.chars)) ELSE NoValue,
        path |-> IF given.path.type = "string"
                 THEN StrV(sanitizeMemoryPath(given.path.chars)) ELSE NoValue,
        value |-> IF given.value.type = "string"
                  THEN StrV(sanitizeString(given.value.chars)) ELSE NoValue,
        data |-> IF given.data.type = "string"
                 THEN StrV(sanitizeString(given.data.chars)) ELSE NoValue]

\* the history of a dispatched call of a sanitizing tool
Dispatched(name, args, valid) ==
    IF name \in SanitizingTools
    THEN [name |-> name, given |-> GivenStrings(name, args),
          segment |-> IF name = "screeps_memory_segment_set" THEN args.segment ELSE NoValue,
          valid |-> valid, cleaned |-> valid, invoked |-> FALSE, passed |-> NoStrings]
    ELSE NoFlow

\* handleToolCall(name, args) up to its first await: the rate limiter, the
\* switch, the handler's validation, and `await this.getApi()`
handleToolCall(name, args) ==
    /\ toolCall.pc = "idle"
    /\ toolCall.n < MaxToolCalls
    /\ LET got == allowRequest(requests, ToolKey(name), clock, ToolWindowMs, ToolMaxRequests)
           call == [toolCall EXCEPT !.n = @ + 1]
       IN /\ requests' = got.requests
          /\ asked' = MapSet(asked, ToolKey(name),
                             Append(Asked(ToolKey(name)), [time |-> clock, ok |-> got.ok]))
          /\ IF ~got.ok
             THEN /\ result' = [has |-> TRUE, threw |-> FALSE,
                                isError |-> TRUE, text |-> RateLimitResult.text]
                  /\ toolCall' = call
                  /\ UNCHANGED <<validated, flow>>
             ELSE IF name \notin KnownTools
             THEN /\ result' = [has |-> TRUE, threw |-> FALSE, isError |-> TRUE,
                                text |-> UnknownToolResult(name).text]
                  /\ toolCall' = call
                  /\ UNCHANGED <<validated, flow>>
             ELSE IF Tools[name].schema # "" /\ ~SchemaAccepts(Tools[name].schema, args)
             THEN /\ result' = [has |-> TRUE, threw |-> FALSE, isError |-> TRUE,
                                text |-> formatValidationError("issues").text]
                  /\ toolCall' = call
                  /\ validated' = validated + 1
                  /\ flow' = Dispatched(name, args, FALSE)
             ELSE /\ toolCall' = [call EXCEPT !.pc = "await_api", !.name = name,
                                              !.pass = Sanitized(name, args)]
                  /\ validated' = IF Tools[name].schema # "" THEN validated + 1 ELSE validated
                  /\ flow' = Dispatched(name, args, TRUE)
                  /\ UNCHANGED result
    /\ UNCHANGED <<moreVars, streamVars, token, userId, clock, apiReady, authCall, clientOps>>

\* `await this.getApi()` settles.  Rejected: the handler's catch formats the
\* error.  Resolved: the handler invokes the client operation, which returns
\* at once for the operations that do not await.
GetApiSettles ==
    /\ toolCall.pc = "await_api"
    /\ apiReady.state # "pending"
    /\ LET tool == Tools[toolCall.name]
       IN IF apiReady.state = "rejected"
          THEN /\ ToolReturns(formatApiError(ErrorV(apiReady.reason), <<tool.context>>),
                              toolCall.name)
               /\ UNCHANGED <<clientOps, flow>>
          ELSE /\ clientOps' = clientOps + 1
               /\ flow' = IF toolCall.name \in SanitizingTools
                          THEN [flow EXCEPT !.invoked = TRUE, !.passed = toolCall.pass]
                          ELSE flow
               /\ IF tool.sync
                  THEN ToolReturns(Returned(SuccessResult(toolCall.name)), toolCall.name)
                  ELSE /\ toolCall' = [toolCall EXCEPT !.pc = "await_op"]
                       /\ UNCHANGED result
    /\ UNCHANGED <<moreVars, streamVars, token, userId, clock, requests, apiReady, authCall,
                   asked, validated>>

\* the client operation settles: it returns, throws an Error, or (a client
\* given through apiFactory) rejects with null
OperationOutcomes == {"ok", "error", "null"}
OperationSettles(outcome) ==
    /\ toolCall.pc = "await_op"
    /\ LET tool == Tools[toolCall.name]
       IN ToolReturns(
              CASE outcome = "ok" -> Returned(SuccessResult(toolCall.name))
                [] outcome = "error" ->
                      formatApiError(ErrorV("API request failed"), <<tool.context>>)
                [] outcome = "null" -> formatApiError(NullV, <<tool.context>>),
              toolCall.name)
    /\ UNCHANGED <<flow, moreVars, streamVars, token, userId, clock, requests, apiReady, authCall,
                   asked, clientOps, validated>>

\* the arguments of the calls
NoFields == [isObject |-> TRUE, roomName |-> Undef, segment |-> Undef,
             command |-> Undef, path |-> Undef, value |-> Undef, data |-> Undef,
             limit |-> Undef, since |-> Undef, bufferSize |-> Undef, shard |-> Undef]
S_W1N1 == <<"W", "1", "N", "1">>
S_E12S3 == <<"E", "1", "2", "S", "3">>
BadRoomNames == {<<>>, <<"W", "N", "1">>, <<"w", "1", "n", "1">>, <<"W", "1", "N">>,
                 <<"W", "1", "N", "1", "x">>, <<"x", "W", "1", "N", "1">>}
GoodArgs ==
    {[NoFields EXCEPT !.roomName = StrV(r)] : r \in {S_W1N1, S_E12S3}}
        \cup {[NoFields EXCEPT !.segment = IntV(n)] : n \in {0, 99}}
        \cup {[NoFields EXCEPT !.command = StrV(<<"x">>)],
              [NoFields EXCEPT !.path = StrV(<<"a">>)]}
\* arguments that violate the contract of a tool
Violations ==
    {[name |-> n, args |-> [NoFields EXCEPT !.roomName = StrV(r)]] :
        n \in {"screeps_room_objects", "screeps_room_terrain"}, r \in BadRoomNames}
    \cup {[name |-> "screeps_memory_segment_get", args |-> [NoFields EXCEPT !.segment = v]] :
            v \in {IntV(150), IntV(100), IntV(-1), FracV(1), StrV(<<"1">>), Undef}}
    \cup {[name |-> "screeps_console_command", args |-> [NoFields EXCEPT !.command = StrV(<<>>)]],
          [name |-> "screeps_memory_get", args |-> [NoFields EXCEPT !.path = StrV(<<>>)]],
          [name |-> "screeps_room_objects", args |-> [NoFields EXCEPT !.isObject = FALSE]]}
ToolArgSet == GoodArgs \cup {v.args : v \in Violations}
ToolNames == {"screeps_room_objects", "screeps_room_terrain", "screeps_memory_segment_get",
              "screeps_console_command", "screeps_memory_get", "screeps_user_info",
              "screeps_console_stream_read", "no_such_tool"}

HandleToolCall == \E name \in ToolNames, args \in ToolArgSet : handleToolCall(name, args)

\* time passes to one of the instants
PassTo(instants) ==
    /\ \E t \in instants : t > clock /\ clock' = t
    /\ UNCHANGED <<streamVars, token, userId, toolVars>>

\* the instants of SpecTools: the first millisecond, the last of the
\* first window and the first past it
ToolInstants == {1, ToolWindowMs, ToolWindowMs + 1}

\* new ScreepsTools(config): the constructor has called api.authenticate(),
\* which awaits its first request
ToolsFresh ==
    /\ requests = EmptyMap
    /\ apiReady = [state |-> "pending", reason |-> ""]
    /\ authCall = [pc |-> IF token # "" THEN "user" ELSE "token", depth |-> 0]
    /\ toolCall = [pc |-> "idle", n |-> 0, name |-> "", pass |-> NoStrings]
    /\ result = NoResult
    /\ asked = EmptyMap
    /\ clientOps = 0
    /\ validated = 0
    /\ MoreInit

\* the same instance after BurstCalls calls of screeps_room_objects without
\* arguments in its first millisecond: each was admitted and failed validation
ToolsBusy ==
    /\ requests = MapSet(EmptyMap, ToolKey("screeps_room_objects"), [i \in 1..BurstCalls |-> 1])
    /\ apiReady = [state |-> "pending", reason |-> ""]
    /\ authCall = [pc |-> IF token # "" THEN "user" ELSE "token", depth |-> 0]
    /\ toolCall = [pc |-> "idle", n |-> 0, name |-> "", pass |-> NoStrings]
    /\ result = [has |-> TRUE, threw |-> FALSE, isError |-> TRUE,
                 text |-> formatValidationError("issues").text]
    /\ asked = MapSet(EmptyMap, ToolKey("screeps_room_objects"),
                      [i \in 1..BurstCalls |-> [time |-> 1, ok |-> TRUE]])
    /\ clientOps = 0
    /\ validated = BurstCalls
    /\ MoreInit

InitTools == StreamInit /\ (ToolsFresh \/ ToolsBusy)

\* The tool layer: authentication settles, tools are called, time passes.
NextTools ==
    \/ \E response \in TokenResponses : Running /\ AuthTokenSettles(response)
    \/ \E response \in UserResponses : Running /\ AuthUserSettles(response)
    \/ Running /\ HandleToolCall
    \/ Running /\ GetApiSettles
    \/ \E outcome \in OperationOutcomes : Running /\ OperationSettles(outcome)
    \/ Running /\ PassTo(ToolInstants)

SpecTools == InitTools /\ [][NextTools]_vars

\* A subscribed stream fed frames of every kind: heartbeats, frames that are
\* not console payloads, plain and compressed console frames, until it closes.
NextFrames ==
    \/ \E s \in Calls : ServerHeartbeat(s) /\ StreamOnly
    \/ \E s \in Calls : ServerOther(s)
    \/ \E s \in Calls : ServerConsole(s, {OneLine, GzOneLine, GzDirect}, MaxAllFrames) /\ StreamOnly
    \/ \E s \in Calls : SocketClose(s) /\ StreamOnly

SpecFrames == InitSubscribed /\ [][NextFrames]_vars

\* ------------------------------------------------- four messages, in order
\* a console frame whose one log line is the given text
LineFrame(chars) == Payload([log |-> <<Str(chars)>>, results |-> <<>>, errors |-> <<>>,
                             highlight |-> <<>>])
S_A == <<"A">>
S_B == <<"B">>
S_C == <<"C">>
S_D == <<"D">>
FourLines == <<S_A, S_B, S_C, S_D>>

\* the server sends the next of the four lines
ServerNextLine(s) ==
    /\ sockets[s].subscribed
    /\ nFrames < Len(FourLines)
    /\ OnPayload(s, LineFrame(FourLines[nFrames + 1]), Len(FourLines))

\* the lines of what a read returns
Lines(got) == [i \in 1..Len(got.items) |-> got.items[i].val.line]

SmallBufferSize == Some(3)
ReadLimits == {1, 10}

\* A new instance on which every stream is started with bufferSize 3, a server
\* that sends the lines A, B, C, D in this order, and a caller that reads.
NextFourLines ==
    \/ \E c \in Calls : startConsoleStream(c, "", SmallBufferSize) /\ StreamOnly
    \/ \E c \in Calls : AuthUserResponse(c) /\ StreamOnly
    \/ \E s \in Calls : SocketOpen(s) /\ StreamOnly
    \/ \E s \in Calls : ServerAuthOk(s) /\ StreamOnly
    \/ \E s \in Calls : ServerNextLine(s) /\ StreamOnly
    \/ \E limit \in ReadLimits : Read(limit, NoArg) /\ StreamOnly
    \/ Tick /\ StreamOnly

SpecFourLines == InitToken /\ [][NextFourLines]_vars

\* ------------------------------------------------- payloads of every shape
\* an element of a list that is not a string (a number)
NotAString == [str |-> FALSE, chars |-> <<>>]

\* the lists a payload may carry under log, results, errors and highlight
\* (a missing list is the empty one: neither admits anything)
ListChoices == {<<>>, <<Str(S_hi)>>, <<Str(S_bhi), Str(S_lt)>>, <<NotAString, Str(S_hi)>>}
ListFrames ==
    {Payload([log |-> l, results |-> r, errors |-> e, highlight |-> h]) :
        l \in ListChoices, r \in ListChoices, e \in ListChoices, h \in ListChoices}

\* A subscribed stream whose server sends payloads of every shape.
NextLists ==
    \/ \E s \in Calls : ServerConsole(s, ListFrames, MaxBufFrames) /\ StreamOnly
    \/ Tick /\ StreamOnly

SpecLists == InitSubscribed /\ [][NextLists]_vars

\* ------------------------------------------------- the handshake
\* what a step of the handshake leaves alone besides the stream's variables
handshakeQuiet == <<requests, apiReady, authCall, toolCall, result, asked,
                    clientOps, validated, flow, tasks, http, probe, reader>>

\* startConsoleStream is called; the history notes what the call found: the
\* bound, the shard getConsoleStreamState reports, the buffer
StartAndNote(c) ==
    /\ StartConsoleStream(c)
    /\ before' = [before EXCEPT ![c] = [max |-> maxConsoleBuffer,
                                        shard |-> getConsoleStreamState.shard,
                                        buffer |-> consoleBuffer]]
    /\ UNCHANGED <<discarded, answered, handshakeQuiet>>

\* The server answers the auth frame, once: with 'auth ok', or with another
\* frame ('auth failed'), which the message handler passes to
\* handleConsoleSocketPayload as any frame that is neither 'auth ok' nor 'time'.
ServerAnswers(s, ok) ==
    /\ sockets[s].sent # <<>>
    /\ answered[s] = ""
    /\ IF ok
       THEN /\ OnAuthOk(s)
            /\ UNCHANGED discarded
       ELSE /\ OnPayload(s, NotJson, MaxAllFrames)
            /\ discarded' = [names |-> discarded.names \cup {NotJson}, at |-> Len(admitted)]
    /\ answered' = [answered EXCEPT ![s] = IF ok THEN "ok" ELSE "other"]
    /\ UNCHANGED <<before, handshakeQuiet>>

\* the server sends a console frame on a connection that has sent the auth
\* frame and has not received 'auth ok'
ServerEarlyConsole(s) ==
    /\ sockets[s].sent # <<>>
    /\ ~sockets[s].authOk
    /\ OnPayload(s, OneLine, MaxFrames)

\* The handshake against any server: the calls, the socket events, the answer
\* to the auth frame, console frames before and after it, stop.
HandshakeProgress ==
    \/ \E c \in Calls : Running /\ StartAndNote(c)
    \/ \E c \in Calls : Running /\ AuthUserResponse(c) /\ StreamOnly
    \/ \E s \in Calls : Running /\ SocketOpen(s) /\ StreamOnly
    \/ \E s \in Calls, ok \in BOOLEAN : Running /\ ServerAnswers(s, ok)
    \/ \E s \in Calls : Running /\ ServerEarlyConsole(s) /\ StreamOnly
    \/ \E s \in Calls : Running /\ ServerConsole(s, {OneLine}, MaxFrames) /\ StreamOnly

NextHandshake ==
    \/ HandshakeProgress
    \/ \E s \in Calls : Running /\ SocketError(s) /\ StreamOnly
    \/ \E s \in Calls : Running /\ SocketClose(s) /\ StreamOnly
    \/ Running /\ stopConsoleStream /\ StreamOnly

SpecHandshake == InitToken /\ [][NextHandshake]_vars

\* The same, where whatever can happen without the socket failing or the
\* stream being stopped eventually happens: the calls are made, the requests
\* and the auth frame are answered.
SpecHandshakeFair == SpecHandshake /\ WF_vars(HandshakeProgress)

\* ------------------------------------------------- a polling reader
\* the largest timestamp of a collection, or the one known before
Newest(items, known) ==
    LET stamps == {items[i].val.timestamp : i \in 1..Len(items)}
                      \cup (IF known.has THEN {known.val} ELSE {})
    IN IF stamps = {} THEN NoArg
       ELSE Some(CHOOSE t \in stamps : \A u \in stamps : u <= t)

\* The reader calls getBufferedConsoleMessages(limit, since) with the largest
\* timestamp it has received; the history counts what it got and notes
\* whether more than `limit` messages were admitted since its last call.
Poll(limit) ==
    /\ Read(limit, reader.since)
    /\ LET got == getBufferedConsoleMessages(limit, reader.since)
       IN reader' = [since |-> Newest(got.items, reader.since),
                     count |-> reader.count + Len(got.items),
                     at |-> Len(admitted),
                     fits |-> reader.fits /\ Len(admitted) - reader.at <= limit]
    /\ UNCHANGED <<discarded, requests, apiReady, authCall, toolCall, result, asked,
                   clientOps, validated, flow, tasks, http, probe, answered, before>>

PollLimits == {1, 2}

\* A subscribed stream with the default bound, the clock, and one reader
\* that polls.
NextPoll ==
    \/ \E s \in Calls : ServerConsole(s, {OneLine}, MaxPollFrames) /\ StreamOnly
    \/ Tick /\ StreamOnly
    \/ \E limit \in PollLimits : Poll(limit)

SpecPoll == InitSubscribed /\ [][NextPoll]_vars

\* ------------------------------------------------- one-shot requests
\* what the request layer leaves alone
requestQuiet == <<streamVars, clock, requests, apiReady, authCall, toolCall, result,
                  asked, clientOps, validated, flow, probe, answered, before, reader>>

\* fetch(url, options): the request goes out with the token of its X-Token
\* header ("" when undefined; the token exchange carries none), and the call
\* awaits the answer
ApiSend(t, task, path, stack, tok) ==
    /\ http' = Append(http, [path |-> path, token |-> tok, task |-> t])
    /\ tasks' = [tasks EXCEPT ![t] = [task EXCEPT !.pc = path, !.stack = stack]]

\* the call throws
ApiFail(t, task) ==
    /\ tasks' = [tasks EXCEPT ![t] = [task EXCEPT !.pc = "failed", !.stack = <<>>]]

\* authenticate() up to its first await, this.token being tok: with a token
\* getUserInfo() asks /api/user/me; without one the username and password
\* are required and the token exchange is asked
authenticate(t, task, stack, tok) ==
    IF tok # "" THEN ApiSend(t, task, "me", stack, tok)
    ELSE IF ~HasPair(config) THEN ApiFail(t, task) /\ UNCHANGED http
    ELSE ApiSend(t, task, "signin", stack, "")

\* apiRequest(path) up to its first await: without a token it awaits
\* authenticate() (the stack keeps the requests that wait for it to return)
apiRequest(t, task, path, stack, tok) ==
    IF tok = "" THEN authenticate(t, task, <<path>> \o stack, tok)
    ELSE ApiSend(t, task, path, stack, tok)

\* a one-shot operation of the client is called (getRoomObjects, ...)
CallOperation(t) ==
    /\ tasks[t].pc = "idle"
    /\ apiRequest(t, [tasks[t] EXCEPT !.kind = "op", !.lazy = (token = "")], "op", <<>>, token)
    /\ UNCHANGED <<token, userId, requestQuiet>>

\* authenticate() is called
CallAuthenticate(t) ==
    /\ tasks[t].pc = "idle"
    /\ authenticate(t, [tasks[t] EXCEPT !.kind = "authenticate", !.lazy = (token = "")],
                    <<>>, token)
    /\ UNCHANGED <<token, userId, requestQuiet>>

\* the token exchange answers: an error status, a body with a token, a body
\* without one.  The token of the body is stored as it is and getUserInfo()
\* follows; its apiRequest calls authenticate() again when there is no token.
SigninAnswers(t, response) ==
    /\ tasks[t].pc = "signin"
    /\ IF response = "fail"
       THEN /\ ApiFail(t, tasks[t])
            /\ UNCHANGED <<http, token>>
       ELSE /\ response = "no_token" => Len(tasks[t].stack) <= MaxAuthDepth
            /\ token' = IF response = "token" THEN "T" ELSE ""
            /\ apiRequest(t, tasks[t], "me", tasks[t].stack, token')
    /\ UNCHANGED <<userId, requestQuiet>>

\* /api/user/me answers.  getUserInfo stores the _id and authenticate()
\* returns: to the caller, or to the apiRequest that awaited it, which goes on
\* and sends its request with this.token as it is now.
UserAnswers(t, response) ==
    /\ tasks[t].pc = "me"
    /\ IF response = "fail"
       THEN /\ ApiFail(t, tasks[t])
            /\ UNCHANGED <<http, userId>>
       ELSE /\ userId' = IF response = "id" THEN "U" ELSE ""
            /\ IF tasks[t].stack = <<>>
               THEN /\ tasks' = [tasks EXCEPT ![t].pc = "done"]
                    /\ UNCHANGED http
               ELSE ApiSend(t, tasks[t], Head(tasks[t].stack), Tail(tasks[t].stack), token)
    /\ UNCHANGED <<token, requestQuiet>>

\* the request of the operation answers
OperationAnswers(t, ok) ==
    /\ tasks[t].pc = "op"
    /\ tasks' = [tasks EXCEPT ![t].pc = IF ok THEN "done" ELSE "failed"]
    /\ UNCHANGED <<http, token, userId, requestQuiet>>

\* A new ScreepsAPI with any credentials, its one-shot operations and
\* authenticate() called, also while another call is awaiting.
InitRequests ==
    /\ config \in {[shard |-> "shard0", cred |-> c] : c \in {"token", "password", "none", "both"}}
    /\ ApiInit
    /\ ToolsInit
NextRequests ==
    \/ \E t \in Tasks : CallOperation(t)
    \/ \E t \in Tasks : CallAuthenticate(t)
    \/ \E t \in Tasks, response \in TokenResponses : SigninAnswers(t, response)
    \/ \E t \in Tasks, response \in UserResponses : UserAnswers(t, response)
    \/ \E t \in Tasks, ok \in BOOLEAN : OperationAnswers(t, ok)

SpecRequests == InitRequests /\ [][NextRequests]_vars

\* ------------------------------------------------- calls with strings
S_x == <<"x">>
CommandChoices == {NoValue, IntV(1), StrV(<<>>), StrV(S_x),
                   StrV(<<"r", "e", "q", "u", "i", "r", "e", "(", "'", "x", "'", ")">>),
                   StrV(<<"r", "e", "g", "l", "o", "b", "a", "l", ".", "q", "u", "i", "r", "e", "(">>)}
PathChoices == {NoValue, StrV(<<>>), StrV(<<"a", ".", "b">>), StrV(<<".", ".", "/", "a">>), StrV(<<".", "<", ".">>),
                StrV(<<".", ".">>)}
ValueChoices == {NoValue, StrV(<<>>), StrV(<<"<", "s", "c", "r", "i", "p", "t", ">", "x", "<", "/", "s", "c", "r", "i", "p", "t", ">", "1">>),
                 StrV(<<" ", "o", "n", "c", "l", "i", "c", "k", "=", "x">>)}
DataChoices == {NoValue, StrV(<<"j", "a", "v", "a", "s", "c", "r", "i", "p", "t", ":", "a">>),
                StrV(<<"o", "n", "l", "o", "a", "d", " ", "=", "x", " ">>)}
\* calls of the tools whose handlers sanitize, with valid and invalid arguments
StringCalls ==
    {[name |-> "screeps_console_command", args |-> [NoFields EXCEPT !.command = c]] :
        c \in CommandChoices}
    \cup {[name |-> n, args |-> [NoFields EXCEPT !.path = p]] :
            n \in {"screeps_memory_get", "screeps_memory_delete"}, p \in PathChoices}
    \cup {[name |-> "screeps_memory_set", args |-> [NoFields EXCEPT !.path = p, !.value = v]] :
            p \in PathChoices, v \in ValueChoices}
    \cup {[name |-> "screeps_memory_segment_set",
           args |-> [NoFields EXCEPT !.segment = g, !.data = d]] :
            g \in {IntV(0), IntV(150)}, d \in DataChoices}

HandleStringCall == \E c \in StringCalls : handleToolCall(c.name, c.args)

\* A new ScreepsTools with a token; the tools that sanitize are called.
InitFlow == StreamInit /\ config.cred = "token" /\ ToolsFresh
NextFlow ==
    \/ \E response \in UserResponses : Running /\ AuthUserSettles(response)
    \/ Running /\ HandleStringCall
    \/ Running /\ GetApiSettles
    \/ \E outcome \in OperationOutcomes : Running /\ OperationSettles(outcome)

SpecFlow == InitFlow /\ [][NextFlow]_vars

\* ------------------------------------------------- lines with markup
\* the server sends a console frame whose one log line is the given text;
\* the history notes the line as it was received
ReceiveLine(s, line) ==
    /\ sockets[s].subscribed
    /\ OnPayload(s, LineFrame(line), MaxBufFrames)
    /\ probe' = [fn |-> "stripHtmlTags", arg |-> line, out |-> stripHtmlTags(line)]
    /\ UNCHANGED <<discarded, requests, apiReady, authCall, toolCall, result, asked,
                   clientOps, validated, flow, tasks, http, answered, before, reader>>

\* A subscribed stream receives lines with and without markup; a caller reads.
NextStrip ==
    \/ \E s \in Calls, line \in StripInputs : ReceiveLine(s, line)
    \/ \E limit \in ReadLimits : Read(limit, NoArg) /\ StreamOnly
    \/ Tick /\ StreamOnly

SpecStrip == InitSubscribed /\ [][NextStrip]_vars

\* ------------------------------------------------------- the sanitizers
\* a sanitizer is applied to an input
Apply(fn, arg, out) ==
    /\ probe = NoProbe
    /\ probe' = [fn |-> fn, arg |-> arg, out |-> out]
    /\ UNCHANGED <<streamVars, token, userId, clock, requests, apiReady, authCall,
                   toolCall, result, asked, clientOps, validated, flow, tasks, http,
                   answered, before, reader>>

\* InputSanitizer applied to the strings made of the pieces
NextSanitize ==
    \/ \E arg \in PathInputs : Apply("sanitizeMemoryPath", arg, sanitizeMemoryPath(arg))
    \/ \E arg \in CommandInputs :
          Apply("sanitizeConsoleCommand", arg, sanitizeConsoleCommand(arg))

SpecSanitize == InitToken /\ [][NextSanitize]_vars

\* ================================================================= claims

\* ---- C1 (SpecBuffer)
\* While the bound B = maxConsoleBuffer has been the same for every admission,
\* after N admissions the buffer holds exactly min(N, B) messages: the most
\* recently admitted ones, in arrival order, each as it was admitted.
C1_BufferIsLastAdmitted ==
    boundFixed =>
        LET N == Len(admitted)
            k == Min(N, maxConsoleBuffer)
        IN /\ Len(consoleBuffer) = k
           /\ \A i \in 1..k : consoleBuffer[i] = N - k + i
           /\ \A i \in 1..k : heap[consoleBuffer[i]] = admitted[N - k + i]

\* more messages were admitted than the bound allows: the oldest were evicted
C1_Witness ==
    /\ boundFixed
    /\ Len(admitted) > maxConsoleBuffer
    /\ Len(consoleBuffer) = maxConsoleBuffer
    /\ consoleBuffer[1] = Len(admitted) - maxConsoleBuffer + 1

\* ---- C2 (SpecBuffer)
\* In every reachable state the number of buffered messages is at most the
\* current maximum buffer size.
C2_BufferWithinBound == Len(consoleBuffer) <= maxConsoleBuffer

\* ---- C3 (SpecRead)
\* the eligible messages: those newer than since, all when since is absent
Eligible(since) ==
    IF since.has
    THEN SelectSeq(BufferValues, LAMBDA m : m.timestamp > since.val)
    ELSE BufferValues

\* the n most recent of a sequence, in order (none when n <= 0)
MostRecent(seq, n) ==
    IF n <= 0 THEN <<>> ELSE [i \in 1..n |-> seq[Len(seq) - n + i]]

\* As claimed: for every integer limit, a read returns exactly the
\* min(limit, k) most recent of the k eligible messages, in arrival order.
C3_ReadReturnsMinLimitK ==
    [][\A limit \in Limits, since \in Sinces :
          Read(limit, since) =>
              Values(returned') =
                  MostRecent(Eligible(since), Min(limit, Len(Eligible(since))))]_vars

\* Amended: for every limit >= 1 a read returns exactly the min(limit, k) most
\* recent eligible messages in arrival order (so never more than limit); for
\* limit <= 0 no limit is applied and all k eligible messages are returned.
C3_ReadReturnsMostRecentEligible ==
    [][\A limit \in Limits, since \in Sinces :
          Read(limit, since) =>
              Values(returned') =
                  IF limit >= 1
                  THEN MostRecent(Eligible(since), Min(limit, Len(Eligible(since))))
                  ELSE Eligible(since)]_vars

\* a read with limit 2 and since 1 whose filter and limit both cut: the buffer
\* holds a message not newer than 1 and more than two newer ones
C3_Witness ==
    /\ returned.has
    /\ Len(Eligible(Some(1))) > 2
    /\ Len(Eligible(Some(1))) < Len(consoleBuffer)
    /\ Values(returned) = MostRecent(Eligible(Some(1)), 2)

\* ---- C4 (SpecRead)
\* A returned collection is a copy: whatever is admitted, evicted, started or
\* stopped later, it holds what the caller was given (and wrote to it since),
\* and a caller writing to a returned message changes no message of the buffer.
C4_ReturnedIsCopy ==
    /\ returned.has => Values(returned) = snap
    /\ \A i \in 1..Len(heap) : heap[i] = admitted[i]

\* a caller holds messages, wrote to one of them, and since the read the stream
\* was stopped and messages the caller holds were evicted from the buffer
C4_Witness ==
    /\ returned.has
    /\ \E j \in 1..Len(snap) : snap[j].line = S_tampered
    /\ Len(admitted) > Len(consoleBuffer)
    /\ consoleBuffer[1] > 2
    /\ Len(snap) > 1
    /\ snap[2] = admitted[2]
    /\ stopped

\* ---- C5 (Spec)
\* the call targets the shard the stream is subscribed on
SameShard(shard) == OrElse(shard, config.shard) = OrElse(consoleShard, config.shard)

\* Calling startConsoleStream while Subscribed on the same shard is a no-op,
\* for a direct call and for the start tool called without arguments: no
\* socket is opened, no frame sent, and the buffer, the maximum buffer size
\* and the reported state stay as they are.
C5_StartWhenSubscribedIsNoOp ==
    [][\A c \in Calls :
          (/\ Subscribed
           /\ SameShard("")
           /\ \/ startConsoleStream(c, "", NoArg)
              \/ handleConsoleStreamStart(c, NoToolArgs))
          => /\ UNCHANGED <<sockets, consoleSocket, consoleBuffer, heap,
                            maxConsoleBuffer, consoleShard>>
             /\ getConsoleStreamState' = getConsoleStreamState]_vars

\* ---- C6 (Spec)
\* In every reachable state at most one socket of the instance is live
\* (connecting or open), and it is the socket the instance references.
C6_AtMostOneLiveSocket ==
    /\ Cardinality({s \in Calls : WsLive(s)}) <= 1
    /\ \A s \in Calls : WsLive(s) => consoleSocket = s

\* ---- C7 (Spec)
\* If stopConsoleStream was called while a start call was pending, then once
\* that call has settled its socket is not live, and, no start having been
\* called since, the stream is not active.
C7_StopDuringStartEndsStopped ==
    \A c \in Calls :
        (stopDuring[c] /\ calls[c].pc \in Settled) =>
            /\ ~WsLive(c)
            /\ stopped => ~getConsoleStreamState.isActive

\* ---- C8 (Spec)
\* A start call resolves only when the stream is Subscribed ('auth ok' was
\* received and the subscribe frame sent on the referenced socket); a socket
\* error or close before its socket got that far rejects the call, leaves the
\* socket not live and the stream not active.
C8_ResolvesOnlySubscribed ==
    [][/\ \A c \in Calls :
            (calls[c].pc # "resolved" /\ calls'[c].pc = "resolved") => Subscribed'
       /\ \A s \in Calls :
            ((SocketError(s) \/ SocketClose(s)) /\ ~sockets[s].subscribed)
            => /\ calls'[s].pc = "rejected"
               /\ ~WsLive(s)'
               /\ ~getConsoleStreamState'.isActive]_vars

\* ---- C9 (Spec)
\* An error or close event on a socket that reached Subscribed raises nothing,
\* however many such events there are, leaves the buffer as it is, and the
\* stream on that socket is not active afterwards.
C9_ErrorWhenSubscribedIsSilent ==
    [][\A s \in Calls :
          ((SocketError(s) \/ SocketClose(s)) /\ sockets[s].subscribed)
          => /\ ~raised'
             /\ consoleBuffer' = consoleBuffer
             /\ heap' = heap
             /\ (consoleSocket = s => ~getConsoleStreamState'.isActive)]_vars

\* ---- C10 (Spec)
\* stopConsoleStream leaves the referenced socket not live, the stream not
\* active and the buffer as it is; and from a stop to the next start call no
\* message is admitted: the buffer stays exactly as it was.
C10_StopFreezesBuffer ==
    [][/\ stopConsoleStream =>
            /\ \A s \in Calls : consoleSocket = s => ~WsLive(s)'
            /\ ~getConsoleStreamState'.isActive
            /\ consoleBuffer' = consoleBuffer
       /\ (stopped /\ stopped') =>
            (consoleBuffer' = consoleBuffer /\ heap' = heap)]_vars

\* ---- C11 (SpecFrames)
\* A heartbeat, a frame that does not decode or parse, and a parsed value of
\* another shape each leave the buffer, the sockets and the reported stream
\* state as they are and raise nothing; and a console frame that arrives on
\* the socket after such frames is admitted (its line becomes the newest
\* buffered message).
C11_OtherFramesAreDiscarded ==
    [][\A s \in Calls :
          /\ (ServerHeartbeat(s) \/ \E f \in BadFrames : OnPayload(s, f, MaxAllFrames))
             => /\ UNCHANGED <<consoleBuffer, heap, admitted, sockets, consoleSocket,
                               calls, raised>>
                /\ getConsoleStreamState' = getConsoleStreamState
          /\ \A f \in {OneLine, GzOneLine} :
                (discarded.names # {} /\ OnPayload(s, f, MaxAllFrames))
                => /\ Len(admitted') = Len(admitted) + 1
                   /\ BufferValues'[Len(consoleBuffer')] = admitted'[Len(admitted')]
                   /\ admitted'[Len(admitted')].line = S_hi]_vars

\* every kind of frame that is not a console payload was discarded, a console
\* frame was admitted after the last of them, and the stream is still active
C11_Witness ==
    /\ discarded.names = BadFrames
    /\ Len(admitted) > discarded.at
    /\ Len(consoleBuffer) = Len(admitted)
    /\ getConsoleStreamState.isActive

\* ---- C15 (SpecLimiter)
\* the times of the admitted calls among the first n calls on a key
AdmittedBefore(key, n) ==
    LET h == SubSeq(Asked(key), 1, n)
        ok == SelectSeq(h, LAMBDA a : a.ok)
    IN [i \in 1..Len(ok) |-> ok[i].time]

\* With window W and maximum M, on every key: the first M calls within W of
\* the first one are admitted; the (M+1)-th call, when it comes within W of
\* the first, is refused; and a call is admitted whenever fewer than M calls
\* were admitted before it or the M-th most recent admitted call is at least
\* W old (W has elapsed past the oldest admitted call that counted).
C15_LimiterAdmitsMPerWindow ==
    \A key \in LimiterKeys :
        LET h == Asked(key)
        IN /\ \A i \in 1..Len(h) :
                (i <= LimiterMax /\ h[i].time - h[1].time < LimiterWindow) => h[i].ok
           /\ (Len(h) > LimiterMax
                  /\ h[LimiterMax + 1].time - h[1].time < LimiterWindow)
              => ~h[LimiterMax + 1].ok
           /\ \A j \in 1..Len(h) :
                LET adm == AdmittedBefore(key, j - 1)
                IN (\/ Len(adm) < LimiterMax
                    \/ h[j].time - adm[Len(adm) - LimiterMax + 1] >= LimiterWindow)
                   => h[j].ok

\* a key was asked M + 1 times within the window, the last call refused, and
\* asked again exactly W after its first call, and admitted
C15_Witness ==
    \E key \in LimiterKeys :
        LET h == Asked(key)
        IN /\ Len(h) = LimiterMax + 2
           /\ \A i \in 1..LimiterMax : h[i].ok
           /\ ~h[LimiterMax + 1].ok
           /\ h[LimiterMax + 1].time - h[1].time < LimiterWindow
           /\ h[LimiterMax + 2].time = h[1].time + LimiterWindow
           /\ h[LimiterMax + 2].ok

\* ---- C16 (SpecLimiter)
\* After any sequence of allowRequest and cleanup calls, for every key and
\* every instant t, at most M calls on that key were admitted at a time in
\* the half-open interval (t - W, t].
C16_AtMostMAdmittedPerWindow ==
    \A key \in LimiterKeys : \A t \in 1..MaxTime :
        LET h == Asked(key)
        IN Cardinality({i \in 1..Len(h) :
               h[i].ok /\ h[i].time > t - LimiterWindow /\ h[i].time <= t})
           <= LimiterMax

\* one key had a full window and a refused call, and cleanup has dropped the
\* other key, whose admitted calls had all left the window
C16_Witness ==
    /\ \E t \in 1..MaxTime :
          Cardinality({i \in 1..Len(Asked("b")) :
              Asked("b")[i].ok /\ Asked("b")[i].time > t - LimiterWindow
                  /\ Asked("b")[i].time <= t}) = LimiterMax
    /\ \E i \in 1..Len(Asked("b")) : ~Asked("b")[i].ok
    /\ Len(Asked("a")) > 0
    /\ "a" \notin DOMAIN requests

\* ---- C12 (SpecTools)
\* the answer of the limiter to the call handleToolCall has just made
LastAsked(name) == Asked(ToolKey(name))[Len(Asked(ToolKey(name)))]
\* the step is a call of handleToolCall for the tool: its key was asked
CallOf(name) == Len(Asked(ToolKey(name)))' = Len(Asked(ToolKey(name))) + 1

\* When the limiter refuses tool:<name>, handleToolCall returns the rate-limit
\* error result at once: no argument is validated and no operation of the
\* client invoked.  And with the limiter of the tools (ToolMaxRequests per
\* ToolWindowMs), a call that follows ToolMaxRequests admitted calls of the
\* same tool, the oldest of them less than ToolWindowMs ago, is refused so.
C12_RateLimitedCallIsRefusedAtOnce ==
    [][\A name \in ToolNames :
          CallOf(name) =>
              LET h == Asked(ToolKey(name))'
                  n == Len(h)
              IN /\ ~h[n].ok =>
                      /\ result'.isError /\ ~result'.threw
                      /\ result'.text = RateLimitResult.text
                      /\ validated' = validated
                      /\ clientOps' = clientOps
                      /\ toolCall'.pc = "idle"
                 /\ (/\ n > ToolMaxRequests
                     /\ \A i \in (n - ToolMaxRequests)..(n - 1) : h[i].ok
                     /\ h[n].time - h[n - ToolMaxRequests].time < ToolWindowMs)
                    => ~h[n].ok]_vars

\* screeps_room_objects was called ToolMaxRequests times and once more, all
\* within the window: the last call was refused
C12_Witness ==
    LET h == Asked(ToolKey("screeps_room_objects"))
    IN /\ Len(h) = ToolMaxRequests + 1
       /\ \A i \in 1..ToolMaxRequests : h[i].ok
       /\ ~h[ToolMaxRequests + 1].ok
       /\ h[ToolMaxRequests + 1].time = ToolWindowMs
       /\ result.text = RateLimitResult.text
       /\ validated = ToolMaxRequests

\* ---- C13 (SpecTools)
\* the result is a validation error
IsValidationError(r) == ~r.threw /\ r.isError /\ r.text[1] = "Validation Error"

\* As claimed: a call whose arguments violate the contract of its tool
\* returns a 'Validation Error' result with isError, and invokes no operation
\* of the client.
C13_ViolationYieldsValidationError ==
    [][\A v \in Violations :
          (CallOf(v.name) /\ handleToolCall(v.name, v.args)) =>
              /\ IsValidationError(result')
              /\ clientOps' = clientOps
              /\ toolCall'.pc = "idle"]_vars

\* Amended: a call that the rate limiter admits and whose arguments violate
\* the contract of its tool returns a 'Validation Error' result with isError;
\* and no call with such arguments, admitted or refused, invokes an operation
\* of the client.
C13_AdmittedViolationYieldsValidationError ==
    [][\A v \in Violations :
          (CallOf(v.name) /\ handleToolCall(v.name, v.args)) =>
              /\ LastAsked(v.name)'.ok => IsValidationError(result')
              /\ clientOps' = clientOps
              /\ toolCall'.pc = "idle"]_vars

\* the one call made so far, screeps_memory_segment_get, failed validation
C13_Witness ==
    /\ toolCall.n = 1
    /\ toolCall.pc = "idle"
    /\ Len(Asked(ToolKey("screeps_memory_segment_get"))) = 1
    /\ validated = 1
    /\ IsValidationError(result)
    /\ clientOps = 0

\* ---- C14 (SpecTools)
\* handleToolCall never throws: a call that ends without a successful
\* operation of the client (refused by the limiter, failed validation, an
\* unknown name, a rejected apiReady, an operation that throws) returns a
\* result with isError, the unknown name an 'Unknown tool' result.
C14_HandleToolCallNeverThrows ==
    [][/\ ~result'.threw
       /\ \A name \in ToolNames :
            CallOf(name) =>
                /\ toolCall'.pc = "idle" => result'.isError
                /\ (LastAsked(name)'.ok /\ name \notin KnownTools)
                   => (toolCall'.pc = "idle" /\ result'.text = <<"Unknown tool: ", name>>)
       /\ (GetApiSettles /\ apiReady.state = "rejected")
          => (toolCall'.pc = "idle" /\ result'.isError)
       /\ \A outcome \in {"error", "null"} : OperationSettles(outcome) => result'.isError]_vars

\* a client operation rejected with null, the handler's own catch threw on
\* it, and handleToolCall returned the error its try/catch formatted
C14_Witness ==
    /\ result.has
    /\ ~result.threw
    /\ result.isError
    /\ result.text[1] = "Error"
    /\ clientOps = 1

\* ---- C17 (SpecTools)
\* When authenticate() has returned, the session has a token and a user id
\* that is not empty.
C17_AuthenticatedHasUserId ==
    authCall.pc = "done" => (token # "" /\ userId # "")

\* ---- C18 (SpecTools)
\* Once the initial authentication has failed: apiReady stays rejected, no
\* authentication is begun again, no operation of the client is invoked, and
\* every tool call that awaits the connection returns an 'API Error' result
\* with isError whose text ends with the message of that failure.
C18_FailedAuthenticationIsFinal ==
    [][apiReady.state = "rejected" =>
          /\ apiReady' = apiReady
          /\ authCall' = authCall
          /\ token' = token /\ userId' = userId
          /\ clientOps' = clientOps
          /\ toolCall'.pc # "await_op"
          /\ GetApiSettles =>
                /\ result'.isError /\ ~result'.threw
                /\ result'.text[1] = "API Error"
                /\ result'.text[Len(result'.text)] = apiReady.reason]_vars

\* authentication failed, the process lives, and both calls made returned an
\* error without the client being used, the last one the failure itself
C18_Witness ==
    /\ apiReady.state = "rejected"
    /\ ~raised
    /\ toolCall.n = MaxToolCalls
    /\ toolCall.pc = "idle"
    /\ clientOps = 0
    /\ result.isError
    /\ result.text[1] = "API Error"
    /\ result.text[Len(result.text)] = apiReady.reason

\* ---- C19 (SpecTools)
\* Every result with isError has a text that begins with 'Validation Error',
\* with 'API Error (' or with 'Error ('.
C19_ErrorTextHasCategory ==
    (result.has /\ result.isError) =>
        \/ result.text[1] = "Validation Error"
        \/ result.text[1] \in {"API Error", "Error"} /\ result.text[2] = " ("

\* ---- C20 (SpecFourLines)
\* As claimed: started with bufferSize 3, once A, B, C, D were admitted the
\* buffered count is 3 and getBufferedConsoleMessages(10) returns [B, C, D].
C20_CountThreeAndBCD ==
    Len(admitted) = Len(FourLines) =>
        /\ getConsoleStreamState.buffered = 3
        /\ Lines(getBufferedConsoleMessages(10, NoArg)) = <<S_B, S_C, S_D>>

\* Amended: startConsoleStream raises bufferSize 3 to the least bound, 10; once
\* A, B, C, D were admitted the buffered count is 4 and
\* getBufferedConsoleMessages(10) returns [A, B, C, D].
C20_CountFourAndABCD ==
    Len(admitted) = Len(FourLines) =>
        /\ maxConsoleBuffer = MinBufferSize
        /\ getConsoleStreamState.buffered = 4
        /\ Lines(getBufferedConsoleMessages(10, NoArg)) = FourLines

\* the four lines were admitted and a caller has read them with limit 10
C20_Witness ==
    /\ Len(admitted) = Len(FourLines)
    /\ returned.has
    /\ Lines(returned) = FourLines
    /\ getConsoleStreamState.buffered = 4

\* ---- C21 (SpecFrames)
\* A frame made of 'gz' followed directly by the base64 text of the deflated
\* JSON is admitted like the plain frame: for the payload whose log list is
\* ["<b>hi</b>"] exactly one message is buffered, with line 'hi' and kind log.
C21_GzFrameIsAdmitted ==
    [][\A s \in Calls :
          OnPayload(s, GzDirect, MaxAllFrames) =>
              /\ Len(admitted') = Len(admitted) + 1
              /\ Len(consoleBuffer') = Len(consoleBuffer) + 1
              /\ BufferValues'[Len(consoleBuffer')].line = S_hi
              /\ BufferValues'[Len(consoleBuffer')].type = "log"]_vars

\* ---- C30 (SpecLimiter)
\* the timestamp lies inside the window that ends now
InWindow(time) == time > clock - LimiterWindow

\* After cleanup() at time now the limiter holds only keys that have a
\* timestamp inside the window (none whose timestamps all lie at or before
\* now - W), and every key that had a timestamp inside the window is still
\* held, with exactly its timestamps inside the window, in their order.
C30_CleanupKeepsKeysInWindow ==
    [][Cleanup(LimiterWindow) =>
          /\ DOMAIN requests' \subseteq DOMAIN requests
          /\ \A k \in DOMAIN requests' :
                \E i \in 1..Len(requests'[k]) : InWindow(requests'[k][i])
          /\ \A k \in DOMAIN requests :
                (\E i \in 1..Len(requests[k]) : InWindow(requests[k][i]))
                => /\ k \in DOMAIN requests'
                   /\ requests'[k] = SelectSeq(requests[k], InWindow)]_vars

\* cleanup has deleted a key that had been admitted, and has kept another
\* with fewer timestamps than it was admitted times
C30_Witness ==
    \E k1, k2 \in LimiterKeys :
        /\ \E i \in 1..Len(Asked(k1)) : Asked(k1)[i].ok
        /\ k1 \notin DOMAIN requests
        /\ k2 \in DOMAIN requests
        /\ requests[k2] # <<>>
        /\ Len(requests[k2]) < Len(SelectSeq(Asked(k2), LAMBDA a : a.ok))

\* ---- C29 (SpecLists)
\* the strings of a list, each with the kind of the list
StringsOf(list, type) ==
    LET strings == SelectSeq(list, LAMBDA item : item.str)
    IN [i \in 1..Len(strings) |-> [line |-> stripHtmlTags(strings[i].chars), type |-> type]]

\* line and kind of the messages admitted so far
LineAndKind(adm) == [i \in 1..Len(adm) |-> [line |-> adm[i].line, type |-> adm[i].type]]

\* A console payload appends exactly one message per string of its log,
\* results, errors and highlight lists, of kind log, result, error and
\* highlight, in this order of the lists and in list order within a list; an
\* element that is not a string does not keep the strings of its list out.
C29_OneMessagePerString ==
    [][\A s \in Calls : \A f \in ListFrames :
          OnPayload(s, f, MaxBufFrames) =>
              LineAndKind(admitted') =
                  LineAndKind(admitted)
                      \o StringsOf(f.body.messages.log, "log")
                      \o StringsOf(f.body.messages.results, "result")
                      \o StringsOf(f.body.messages.errors, "error")
                      \o StringsOf(f.body.messages.highlight, "highlight")]_vars

\* ---- C26 (Spec)
\* On every socket the frames sent are 'auth <token>' first and then only
\* subscribe frames; a subscribe frame is sent only once 'auth ok' was
\* received on the socket, and it carries a user id that is not empty.
C26_AuthThenSubscribe ==
    \A s \in Calls :
        LET sent == sockets[s].sent
        IN /\ sent # <<>> => (sent[1].cmd = "auth" /\ sent[1].arg # "")
           /\ \A i \in 2..Len(sent) :
                /\ sent[i].cmd = "subscribe"
                /\ sockets[s].authOk
                /\ sent[i].arg # ""

\* ---- C23 (SpecSanitize)
\* The value of sanitizeMemoryPath holds no '..' and none of < > : " | ? *.
C23_PathHasNoDotsNorSpecials ==
    probe.fn = "sanitizeMemoryPath" =>
        /\ ~Contains(probe.out, S_dotdot)
        /\ \A i \in 1..Len(probe.out) : probe.out[i] \notin PathSpecials

\* ---- C24 (SpecSanitize)
\* The value of sanitizeConsoleCommand holds none of 'require(', 'process.'
\* and 'global.'.
C24_CommandHasNoTokens ==
    probe.fn = "sanitizeConsoleCommand" =>
        /\ ~Contains(probe.out, S_require \o <<"(">>)
        /\ ~Contains(probe.out, S_process_)
        /\ ~Contains(probe.out, S_global_)

\* ---- C22 (SpecStrip)
\* the text holds a tag: a '<' and a '>' after it
HasTag(s) == \E i \in 1..Len(s) : \E j \in (i + 1)..Len(s) : s[i] = "<" /\ s[j] = ">"

\* Stripping is idempotent on every line received; the line of the message
\* admitted for a received line is stripHtmlTags of that line; and every
\* line buffered or read holds no tag, so that stripping it again changes
\* nothing.
C22_StrippingIsIdempotent ==
    /\ probe.fn = "stripHtmlTags" =>
          /\ stripHtmlTags(stripHtmlTags(probe.arg)) = stripHtmlTags(probe.arg)
          /\ admitted[Len(admitted)].line = stripHtmlTags(probe.arg)
    /\ \A i \in 1..Len(consoleBuffer) :
          /\ stripHtmlTags(BufferValues[i].line) = BufferValues[i].line
          /\ ~HasTag(BufferValues[i].line)
    /\ \A i \in 1..Len(returned.items) :
          stripHtmlTags(returned.items[i].val.line) = returned.items[i].val.line

\* a line with markup was received, stored without it, and read
C22_Witness ==
    /\ probe.fn = "stripHtmlTags"
    /\ HasTag(probe.arg)
    /\ probe.out # <<>>
    /\ returned.has
    /\ Len(returned.items) > 0
    /\ returned.items[Len(returned.items)].val.line = probe.out

\* ---- C28 (SpecFlow)
\* the arguments of the dispatched call pass the input contract of its tool
FlowValid ==
    SchemaAccepts(Tools[flow.name].schema,
                  [NoFields EXCEPT !.command = flow.given.command, !.path = flow.given.path,
                                   !.value = flow.given.value, !.data = flow.given.data,
                                   !.segment = flow.segment])

C25_BadCredentialsFailAtFirstUse ==
    config.cred \in {"none", "both"} =>
        /\ http = <<>>
        /\ \A t \in Tasks : tasks[t].pc \in {"idle", "failed"}

\* ---- C27 (SpecRequests)
\* Every request but the token exchange carries a token; an operation called
\* while there was no token is sent only after the token exchange and the
\* who-am-I request of its call; and with a token configured no token
\* exchange is asked.
C27_RequestsCarryTheToken ==
    /\ \A i \in 1..Len(http) :
          /\ http[i].path # "signin" => http[i].token # ""
          /\ (http[i].path = "op" /\ tasks[http[i].task].lazy) =>
                \E j \in 1..(i - 1) : \E k \in (j + 1)..(i - 1) :
                    /\ http[j].task = http[i].task /\ http[j].path = "signin"
                    /\ http[k].task = http[i].task /\ http[k].path = "me"
    /\ HasToken(config) => \A i \in 1..Len(http) : http[i].path # "signin"

\* ---- C31 (Spec)
\* getConsoleStreamState reports the number of buffered messages, and reports
\* isActive only while the stream is Subscribed: not when stopped, not while
\* the socket is connecting, not while it is open without 'auth ok'.
C31_ActiveOnlyWhenSubscribed ==
    /\ getConsoleStreamState.buffered = Len(consoleBuffer)
    /\ getConsoleStreamState.isActive => Subscribed

\* ---- C32 (SpecRequests)
\* the requests a call has sent on a path
SentBy(t, path) == {i \in 1..Len(http) : http[i].task = t /\ http[i].path = path}

\* An authenticate() call sends at most one token exchange and at most one
\* who-am-I request, whatever the server answers.
C32_AuthenticateAsksOnce ==
    \A t \in Tasks :
        tasks[t].kind = "authenticate" =>
            /\ Cardinality(SentBy(t, "signin")) <= 1
            /\ Cardinality(SentBy(t, "me")) <= 1

\* ---- C39 (SpecFlow)
\* The path a memory tool passes to getMemory, setMemory or deleteMemory has
\* between 1 and MaxPathLength characters.
C39_PassedPathIsNotEmpty ==
    (flow.invoked /\ flow.name \in {"screeps_memory_get", "screeps_memory_set",
                                    "screeps_memory_delete"}) =>
        /\ flow.passed.path.type = "string"
        /\ Len(flow.passed.path.chars) >= 1
        /\ Len(flow.passed.path.chars) <= MaxPathLength

\* ---- C37 (SpecLimiter)
\* the limiter after the first n calls on a key, no cleanup() between them
RECURSIVE Replayed(_, _)
Replayed(key, n) ==
    IF n = 0 THEN EmptyMap
    ELSE allowRequest(Replayed(key, n - 1), key, Asked(key)[n].time,
                      LimiterWindow, LimiterMax).requests

\* Every allowRequest call, with cleanup() calls anywhere between the calls,
\* answers what it answers in the same sequence of calls without cleanup().
C37_CleanupIsTransparent ==
    \A key \in LimiterKeys : \A i \in 1..Len(Asked(key)) :
        Asked(key)[i].ok =
            allowRequest(Replayed(key, i - 1), key, Asked(key)[i].time,
                         LimiterWindow, LimiterMax).ok

\* cleanup() has deleted one key and pruned the list of the other, which
\* differ from what the calls alone leave, and calls were refused
C37_Witness ==
    /\ Len(Asked("a")) > 0
    /\ "a" \notin DOMAIN requests
    /\ "b" \in DOMAIN requests
    /\ requests["b"] # Replayed("b", Len(Asked("b")))["b"]
    /\ \E i \in 1..Len(Asked("b")) : ~Asked("b")[i].ok
    /\ Asked("b")[Len(Asked("b"))].ok

\* ---- C38 (SpecLimiter)
\* the calls on a key admitted before its j-th call and inside its window
CountedAt(key, j) ==
    {i \in 1..(j - 1) :
        Asked(key)[i].ok /\ Asked(key)[i].time > Asked(key)[j].time - LimiterWindow}

\* A call on a key is admitted exactly when fewer than M admitted calls on
\* that key are inside its window: refused calls, and calls on other keys,
\* count for nothing; and the map holds only times of admitted calls.
C38_RefusedCallsCountForNothing ==
    \A key \in LimiterKeys :
        /\ \A j \in 1..Len(Asked(key)) :
              Asked(key)[j].ok <=> Cardinality(CountedAt(key, j)) < LimiterMax
        /\ key \in DOMAIN requests =>
              \A t \in 1..MaxTime :
                  Cardinality({i \in 1..Len(requests[key]) : requests[key][i] = t})
                  <= Cardinality({i \in 1..Len(Asked(key)) :
                                     Asked(key)[i].ok /\ Asked(key)[i].time = t})

\* a key had M calls admitted, then calls refused at two instants, and was
\* admitted again when the oldest admitted call left the window, while the
\* other key was asked too
C38_Witness ==
    \E key \in LimiterKeys : \E other \in LimiterKeys \ {key} :
        LET h == Asked(key)
        IN /\ Len(h) = LimiterMax + 2
           /\ h[1].ok /\ h[2].ok /\ h[2].time > h[1].time
           /\ ~h[3].ok
           /\ h[4].ok /\ h[4].time = h[1].time + LimiterWindow
           /\ Len(Asked(other)) > 0

\* ---- C36 (SpecPoll)
\* A reader that polls with since set to the largest timestamp it has
\* received has, after every poll, received every message admitted so far,
\* as long as no more than `limit` messages were admitted between two of its
\* polls (none is evicted: the bound is DefaultMaxConsoleBuffer).
C36_PollingMissesNothing ==
    (reader.fits /\ Len(consoleBuffer) = Len(admitted)) => reader.count = reader.at

\* ---- C35 (SpecHandshake)
\* As long as no socket has received 'auth ok', no message is admitted to
\* the buffer.
C35_NothingAdmittedBeforeAuthOk ==
    (\A s \in Calls : ~sockets[s].authOk) => admitted = <<>>

\* ---- C34 (SpecHandshake)
\* When the only startConsoleStream call made has failed, the bound, the
\* reported shard and the buffer are what the call found, and the socket of
\* the call is neither referenced nor connecting or open.
C34_FailedStartChangesNothing ==
    \A c \in Calls :
        (calls[c].pc = "rejected" /\ \A d \in Calls \ {c} : calls[d].pc = "idle") =>
            /\ maxConsoleBuffer = before[c].max
            /\ getConsoleStreamState.shard = before[c].shard
            /\ consoleBuffer = before[c].buffer
            /\ consoleSocket # c
            /\ ~WsLive(c)

\* ---- C33 (SpecHandshakeFair)
\* Once the server has answered the auth frame of a socket with something
\* other than 'auth ok', the call that opened the socket settles, or the
\* socket stops being open.
C33_RefusedAuthSettlesTheCall ==
    \A s \in Calls :
        (answered[s] = "other") ~> (calls[s].pc \in Settled \/ sockets[s].readyState # "OPEN")

====
